---- MODULE Spec2Model ----
(***************************************************************************)
(* Model of the libhttp server connection layer (src/libhttp/connection.c) *)
(* together with the configuration defaults (src/libhttp/cfg.c).           *)
(*                                                                         *)
(* One server connection is modelled.  Every reactor callback of the       *)
(* library (read event, write event, timeout timer) runs to completion on  *)
(* the single event-loop thread, so each callback is one atomic action.    *)
(* The C functions are operators on a machine record `s` that carries the  *)
(* connection (s.c), the server's connection table (s.table) and the       *)
(* observation variables; a fallible library or system call fails when its *)
(* ordinal inside the callback (s.ops) belongs to the fault set env.F      *)
(* chosen by the environment.                                              *)
(***************************************************************************)
EXTENDS Integers, Sequences, FiniteSets, TLC

VARIABLES
    conn,         \* struct http_connection of the modelled socket
    connections,  \* server->connections : set of registered descriptors
    net_in,       \* bytes sent by the peer, not yet read from the socket
    peer_closed,  \* the peer has closed its sending side
    sent,         \* bytes the socket accepted, in order
    now,          \* wall clock, in milliseconds
    appended,     \* every token successfully appended to the write buffer
    evlog,        \* requests processed by the latest read event
    last,         \* the latest callback and its input
    hist,         \* what the connection has received and dispatched
    uaf,          \* a released connection was accessed by library code
    crashed,      \* the process died
    accepts,      \* connections accepted so far
    requests,     \* messages the peer has sent on the connection
    timeouts,     \* timeout checks that acted on the connection
    spent,        \* inputs the environment has used up
    server_cfg,   \* struct http_cfg of the server, and what was done to it
    feed,         \* a parser that is fed a stream piece by piece
    route_base    \* struct http_route_base, and the latest lookup in it

vars == <<conn, connections, net_in, peer_closed, sent, now, appended, evlog,
          last, hist, uaf, crashed, accepts, requests, timeouts, spent,
          server_cfg, feed, route_base>>

----------------------------------------------------------------------------
(* Bounds of the exploration *)

\* The environment's inputs are counted: one for each unit the peer puts
\* on the wire (two for a request), for its close, for each failing call,
\* for each clock step, for each timeout check that acts and for each
\* shutdown the application asks for.
MaxInputs == 4
MaxTicks == 2

\* The content decoders an application adds to a configuration.
MaxDecoders == 3

\* The largest value a limit of the configuration takes for the parser.
MaxLimit == 2

\* The routes an application adds to a route base.
MaxRoutes == 3

\* The bits of the words that stand for uint64_t: time stamps and their
\* differences are computed modulo 2^WordBits.
WordBits == 16

(* Program constants *)

HTTP_1_0 == 0
HTTP_1_1 == 1
HTTP_CONNECTION_KEEP_ALIVE == 1
HTTP_CONNECTION_CLOSE == 2
HTTP_OK == 200
HTTP_BAD_REQUEST == 400
HTTP_NOT_FOUND == 404
HTTP_METHOD_NOT_ALLOWED == 405
HTTP_REQUEST_TIMEOUT == 408
HTTP_REQUEST_ENTITY_TOO_LARGE == 413
HTTP_REQUEST_URI_TOO_LONG == 414
HTTP_REQUEST_HEADER_FIELDS_TOO_LARGE == 431
HTTP_INTERNAL_SERVER_ERROR == 500
HTTP_NOT_IMPLEMENTED == 501
HTTP_HTTP_VERSION_NOT_SUPPORTED == 505
connection_timeout == 10000

\* The clock advances by the timeout or by one millisecond more.
ClockSteps == {connection_timeout, connection_timeout + 1}

\* uint64_t: the values of a word, and the difference of two of them.
Word == 2 ^ WordBits

uint64_sub(a, b) == (a - b) % Word

Sock == 5

----------------------------------------------------------------------------
(* Requests on the wire *)

Versions == {HTTP_1_0, HTTP_1_1}
ConnectionOptions == 0..3

HasOption(options, bit) == (options \div bit) % 2 = 1

Req(m, u, v, o) == [m |-> m, u |-> u, v |-> v, o |-> o, s |-> 0]

NoMsg == [m |-> "", u |-> "", v |-> HTTP_1_0, o |-> 0, s |-> 0]

\* Well-formed requests the peer may send: every version and Connection
\* option for a routed target and for '*', and each kind of mismatch.
RequestMenu ==
    { Req("GET", u, v, o) : u \in {"/a", "*"}, v \in Versions,
                            o \in ConnectionOptions }
    \cup { Req("PUT", "/a", v, 0) : v \in Versions }
    \cup { Req("GET", "/b", v, 0) : v \in Versions }
    \cup { Req("GET", "%", HTTP_1_1, 0) }

\* What the peer may send after its first message: a request that keeps
\* the connection, one that ends it, and one that no route answers.
FollowMenu ==
    { Req("GET", "/a", HTTP_1_1, 0), Req("GET", "/a", HTTP_1_0, 0),
      Req("PUT", "/a", HTTP_1_1, 0) }

\* A request travels as two units: its request line and the end of its
\* header section (which carries the Connection options).
Unit(k, r) == [k |-> k, r |-> r]

Wire(r) == << Unit("RL", r), Unit("HD", r) >>

\* A malformed start line for which the parser stages status code st.
Malformed(st) == Unit("BAD", [NoMsg EXCEPT !.s = st])

MalformedMenu == { Malformed(HTTP_BAD_REQUEST),
                   Malformed(HTTP_HTTP_VERSION_NOT_SUPPORTED) }

----------------------------------------------------------------------------
(* Tokens of the write buffer: one per http_connection_write/printf call *)

Tok(k, t, a, b) == [k |-> k, t |-> t, a |-> a, b |-> b]

http_version_to_string(version) ==
    CASE version = HTTP_1_0 -> "HTTP/1.0"
      [] version = HTTP_1_1 -> "HTTP/1.1"
      [] OTHER -> "NULL"

http_status_code_to_reason_phrase(code) ==
    CASE code = HTTP_OK -> "OK"
      [] code = HTTP_BAD_REQUEST -> "Bad Request"
      [] code = HTTP_NOT_FOUND -> "Not Found"
      [] code = HTTP_METHOD_NOT_ALLOWED -> "Method Not Allowed"
      [] code = HTTP_REQUEST_TIMEOUT -> "Request Timeout"
      [] code = HTTP_INTERNAL_SERVER_ERROR -> "Internal Server Error"
      [] code = HTTP_HTTP_VERSION_NOT_SUPPORTED -> "HTTP Version Not Supported"
      [] OTHER -> "NULL"

\* "%s %d %s\r\n" with the version string, the status code, the reason
StatusLine(version, code, reason) == Tok("status", reason, version, code)

\* "%s: " with the header name
HeaderName(name) == Tok("name", name, 0, 0)

\* the bytes of a header value
HeaderValue(value, n) == Tok("value", value, n, 0)

CRLF == Tok("crlf", "\r\n", 2, 0)

\* "<h1>%d %s</h1>\n" with the status code and the reason; a = strlen(body)
ErrorBodyLength(reason) == 4 + 3 + 1 + Len(reason) + 6

ErrorBody(code, reason) == Tok("body", reason, ErrorBodyLength(reason), code)

IsStatus(tok) == tok.k = "status"

----------------------------------------------------------------------------
(* The connection record *)

NullParser == [state |-> "START", msg |-> NoMsg, status_code |-> 0]

\* The memory of a released connection (memset to zero, then freed).
NullConn ==
    [alive |-> FALSE, sock |-> 0, ev_read |-> "null", ev_write |-> "null",
     rbuf |-> << >>, wbuf |-> << >>, shutting_down |-> FALSE,
     parser |-> NullParser, http_version |-> HTTP_1_0, last_activity |-> 0]

\* What a callback records when http_msg_parse returns -1: the read buffer
\* and the number of requests processed at that moment.
NoParseFailure == [seen |-> FALSE, rbuf |-> << >>, n |-> 0]

ParseFailure(s) == [seen |-> TRUE, rbuf |-> s.c.rbuf, n |-> Len(s.evlog)]

\* What a callback records when http_parser_reset returns -1: the read
\* buffer and the number of requests processed at that moment.
NoResetFailure == [seen |-> FALSE, rbuf |-> << >>, n |-> 0]

ResetFailure(s) == [seen |-> TRUE, rbuf |-> s.c.rbuf, n |-> Len(s.evlog)]

\* The machine a callback runs on.
Machine ==
    [c |-> conn, table |-> connections, appended |-> appended,
     evlog |-> << >>, uaf |-> FALSE, crashed |-> crashed, ops |-> 0, ret |-> 0,
     pf |-> NoParseFailure, errs |-> << >>, writes |-> << >>,
     rf |-> NoResetFailure, hooks |-> << >>]

\* A fallible call: it takes the next ordinal and fails when env.F holds it.
Call(s) == [s EXCEPT !.ops = @ + 1]

Fails(s, env) == (s.ops + 1) \in env.F

Ret(s, r) == [s EXCEPT !.ret = r]

\* Library code dereferences a connection that http_connection_close has
\* released: undefined behaviour.  The callback has no further effect the
\* model follows, and the process either dies or runs on (see Commit).
UseAfterFree(s, env) == [s EXCEPT !.uaf = TRUE, !.ret = -1]

Stopped(s) == s.uaf \/ s.crashed

\* A NULL event handle is handed to the reactor: the process dies.
NullDeref(s) == [s EXCEPT !.crashed = TRUE, !.ret = -1]

----------------------------------------------------------------------------
(* Buffer library *)

bf_buffer_truncate(buf, sz) == IF sz > Len(buf) THEN buf ELSE SubSeq(buf, 1, sz)

bf_buffer_skip(buf, n) == SubSeq(buf, n + 1, Len(buf))

----------------------------------------------------------------------------
(* connection.c *)

http_connection_close(s) ==
    [s EXCEPT !.table = IF s.c.sock >= 0 THEN @ \ {s.c.sock} ELSE @,
              !.c = NullConn]

\* What a callback records about one call of http_connection_write or
\* http_connection_printf: the data, the write buffer and the write event
\* before and after, the fallible calls made and the return value.
WriteCall(pre, tok, post) ==
    [post EXCEPT !.writes =
        Append(@, [tok |-> tok, pre |-> pre.c.wbuf, post |-> post.c.wbuf,
                   ev_pre |-> pre.c.ev_write, ev_post |-> post.c.ev_write,
                   calls |-> post.ops - pre.ops, ret |-> post.ret])]

\* bf_buffer_add and, for an empty buffer, event_add of the write event.
buffer_add_and_arm(s, tok, env) ==
    LET previous_length == Len(s.c.wbuf)
        added == [Call(s) EXCEPT !.c.wbuf = Append(@, tok)]
        logged == [added EXCEPT !.appended = Append(@, tok)]
    IN  IF Fails(s, env) THEN Ret(Call(s), -1)                \* bf_buffer_add
        ELSE IF previous_length # 0 THEN Ret(logged, 0)
        ELSE IF s.c.ev_write = "null" THEN NullDeref(added)
        ELSE IF Fails(added, env)                              \* event_add
             THEN Ret([Call(added) EXCEPT
                          !.c.wbuf = bf_buffer_truncate(@, previous_length)], -1)
             ELSE Ret([Call(logged) EXCEPT !.c.ev_write = "armed"], 0)

http_connection_write(s, tok, env) ==
    IF Stopped(s) THEN s
    ELSE WriteCall(s, tok, buffer_add_and_arm(s, tok, env))

\* The append that stays in the buffer when the write event cannot be
\* armed.
buffer_add_without_truncate(s, tok, env) ==
    IF Fails(s, env) THEN Ret(Call(s), -1)
    ELSE IF Len(s.c.wbuf) # 0
    THEN Ret([Call(s) EXCEPT !.c.wbuf = Append(@, tok),
                             !.appended = Append(@, tok)], 0)
    ELSE IF s.c.ev_write = "null"
    THEN NullDeref([Call(s) EXCEPT !.c.wbuf = Append(@, tok)])
    ELSE IF Fails(Call(s), env)
    THEN Ret([Call(Call(s)) EXCEPT !.c.wbuf = Append(@, tok)], -1)
    ELSE Ret([Call(Call(s)) EXCEPT !.c.wbuf = Append(@, tok),
                                   !.appended = Append(@, tok),
                                   !.c.ev_write = "armed"], 0)

\* bf_buffer_add_vprintf and, for an empty buffer, event_add.
buffer_add_vprintf_and_arm(s, tok, env) ==
    LET previous_length == Len(s.c.wbuf)
        added == [Call(s) EXCEPT !.c.wbuf = Append(@, tok)]
        logged == [added EXCEPT !.appended = Append(@, tok)]
    IN  IF Fails(s, env) THEN Ret(Call(s), -1)                \* bf_buffer_add_vprintf
        ELSE IF previous_length # 0 THEN Ret(logged, 0)
        ELSE IF s.c.ev_write = "null" THEN NullDeref(added)
        ELSE IF Fails(added, env)                              \* event_add
             THEN Ret([Call(added) EXCEPT
                          !.c.wbuf = bf_buffer_truncate(@, previous_length)], -1)
             ELSE Ret([Call(logged) EXCEPT !.c.ev_write = "armed"], 0)

\* The printf that appends and leaves the write event as it is.
printf_without_arming(s, tok, env) ==
    IF Stopped(s) THEN s
    ELSE WriteCall(s, tok,
             IF Fails(s, env) THEN Ret(Call(s), -1)
             ELSE Ret([Call(s) EXCEPT !.c.wbuf = Append(@, tok),
                                      !.appended = Append(@, tok)], 0))

http_connection_printf(s, tok, env) ==
    IF Stopped(s) THEN s
    ELSE WriteCall(s, tok, buffer_add_vprintf_and_arm(s, tok, env))

http_connection_write_response(s, status_code, reason_phrase, env) ==
    LET version_str == http_version_to_string(s.c.http_version)
        reason == IF reason_phrase = "NULL"
                  THEN http_status_code_to_reason_phrase(status_code)
                  ELSE reason_phrase
    IN  IF version_str = "NULL" \/ reason = "NULL" THEN Ret(s, -1)
        ELSE http_connection_printf(
                 s, StatusLine(s.c.http_version, status_code, reason), env)

http_connection_write_header(s, name, value, env) ==
    LET r1 == http_connection_printf(s, HeaderName(name), env)
        r2 == http_connection_write(r1, value, env)
    IN  IF r1.ret = -1 THEN r1
        ELSE IF r2.ret = -1 THEN r2
        ELSE http_connection_write(r2, CRLF, env)

\* The body written without the empty line that ends the header section.
write_body_without_separator(s, body, env) ==
    http_connection_write(s, body, env)

http_connection_write_body(s, body, env) ==
    LET r1 == http_connection_write(s, CRLF, env)
    IN  IF r1.ret = -1 THEN r1 ELSE http_connection_write(r1, body, env)

http_connection_write_empty_body(s, env) == http_connection_write(s, CRLF, env)

\* What a callback records about one call of http_connection_http_error:
\* its status code, the tokens it appended and what it returned.
ErrorCall(pre, status_code, post) ==
    [post EXCEPT !.errs =
        Append(@, [code |-> status_code, from |-> Len(pre.appended) + 1,
                   to |-> Len(post.appended), ret |-> post.ret])]

http_error_respond(s, status_code, env) ==
    LET reason_phrase == http_status_code_to_reason_phrase(status_code)
        body == ErrorBody(status_code, reason_phrase)
        body_length == body.a
        r1 == http_connection_write_response(s, status_code, reason_phrase, env)
        r2 == http_connection_write_header(
                  r1, "Content-Type", HeaderValue("text/html", 9), env)
        r3 == http_connection_write_header(
                  r2, "Content-Length", HeaderValue("%zu", body_length), env)
    IN  IF r1.crashed THEN r1
        ELSE IF r1.ret = -1 THEN Ret(http_connection_close(r1), -1)
        ELSE IF r2.ret = -1 THEN r2
        ELSE IF r3.ret = -1 THEN r3
        ELSE http_connection_write_body(r3, body, env)

http_connection_http_error(s, status_code, env) ==
    IF Stopped(s) THEN s
    ELSE ErrorCall(s, status_code, http_error_respond(s, status_code, env))

\* The shutdown that forgets to mark the connection as shutting down.
shutdown_without_flag(s, env) ==
    IF Stopped(s) THEN s
    ELSE IF ~s.c.alive THEN UseAfterFree(s, env)
    ELSE IF Fails(s, env) \/ Fails(Call(s), env)
         THEN Ret(http_connection_close(Call(Call(s))), -1)
    ELSE Ret([Call(Call(s)) EXCEPT !.c.ev_read = "idle"], 0)

\* The shutdown that leaves the read event registered.
shutdown_keeps_read_interest(s, env) ==
    IF Stopped(s) THEN s
    ELSE IF ~s.c.alive THEN UseAfterFree(s, env)
    ELSE IF Fails(s, env) \/ Fails(Call(s), env)
         THEN Ret(http_connection_close(Call(Call(s))), -1)
    ELSE Ret([Call(Call(s)) EXCEPT !.c.shutting_down = TRUE], 0)

http_connection_shutdown(s, env) ==
    IF Stopped(s) THEN s
    ELSE IF ~s.c.alive THEN UseAfterFree(s, env)
    ELSE IF Fails(s, env)                                      \* event_del
         THEN Ret(http_connection_close(Call(s)), -1)
    ELSE
    LET deleted == [Call(s) EXCEPT !.c.ev_read = "idle"]
    IN  IF Fails(deleted, env)                                 \* shutdown(2)
        THEN Ret(http_connection_close(Call(deleted)), -1)
        ELSE Ret([Call(deleted) EXCEPT !.c.shutting_down = TRUE], 0)

\* The check that acts as soon as the timeout is reached.
check_for_timeout_inclusive(s, t, env) ==
    IF uint64_sub(t, s.c.last_activity) >= connection_timeout
    THEN http_connection_shutdown(
             http_connection_http_error(s, HTTP_REQUEST_TIMEOUT, env), env)
    ELSE s

http_connection_check_for_timeout(s, t, env) ==
    LET diff == uint64_sub(t, s.c.last_activity)
    IN  IF diff > connection_timeout
        THEN http_connection_shutdown(
                 http_connection_http_error(s, HTTP_REQUEST_TIMEOUT, env), env)
        ELSE s

----------------------------------------------------------------------------
(* Parser, URI and route base, as seen by the connection *)

\* One call advances the parser by one stage of the message at the front
\* of the read buffer: 1 when it advanced (or is at Done/Error), 0 when it
\* needs more bytes, -1 on an internal failure.
http_msg_parse(s, env) ==
    LET p == s.c.parser
        buf == s.c.rbuf
        u == Head(buf)
        fail(st) == [Call(s) EXCEPT !.c.parser.state = "ERROR",
                                    !.c.parser.status_code = st,
                                    !.ret = 1]
    IN  IF Fails(s, env)
        THEN [Call(s) EXCEPT !.ret = -1, !.pf = ParseFailure(s)]
        ELSE IF p.state \in {"ERROR", "DONE"} THEN Ret(Call(s), 1)
        ELSE IF buf = << >> THEN Ret(Call(s), 0)
        ELSE IF u.k = "BAD" THEN fail(u.r.s)
        ELSE IF p.state = "START" /\ u.k = "RL"
             THEN [Call(s) EXCEPT !.c.rbuf = Tail(buf),
                                  !.c.parser.state = "HEADER",
                                  !.c.parser.msg = [u.r EXCEPT !.o = 0],
                                  !.ret = 1]
        ELSE IF p.state = "HEADER" /\ u.k = "HD"
             THEN [Call(s) EXCEPT !.c.rbuf = Tail(buf),
                                  !.c.parser.state = "DONE",
                                  !.c.parser.msg.o = u.r.o,
                                  !.ret = 1]
        ELSE fail(HTTP_BAD_REQUEST)

http_parser_reset(s, env) ==
    IF Fails(s, env) THEN Ret(Call(s), -1)
    ELSE Ret([Call(s) EXCEPT !.c.parser = NullParser], 0)

\* The path of a parsed request target, "NULL" when it cannot be parsed.
http_uri_new(uri) == IF uri = "%" THEN "NULL" ELSE uri

Routes == { [method |-> "GET", path |-> "/a"],
            [method |-> "POST", path |-> "/a"] }

PathMethods(path) == { r.method : r \in { x \in Routes : x.path = path } }

\* The names the sources give to the two kinds of mismatch: connection.c
\* tests WRONG_METHOD and WRONG_PATH, the enumeration of internal.h lists
\* WRONG_PATH, METHOD_NOT_FOUND and PATH_NOT_FOUND.
MatchNamings == { [method |-> "WRONG_METHOD", path |-> "WRONG_PATH"],
                  [method |-> "METHOD_NOT_FOUND", path |-> "PATH_NOT_FOUND"] }

http_route_base_find_msg_handler(method, path, env) ==
    IF [method |-> method, path |-> path] \in Routes
    THEN [handler |-> "reply", match_result |-> "OK"]
    ELSE IF PathMethods(path) # {}
    THEN [handler |-> "NULL", match_result |-> env.R.method]
    ELSE [handler |-> "NULL", match_result |-> env.R.path]

\* The message handler of the routes: it answers 200 with an empty body.
handler(s, msg, env) ==
    LET r1 == http_connection_write_response(s, HTTP_OK, "NULL", env)
    IN  IF r1.ret = -1 THEN r1
        ELSE http_connection_write_empty_body(r1, env)

----------------------------------------------------------------------------
(* Request processing *)

\* The policy with HTTP/1.1 treated as HTTP/1.0 is: closing unless
\* Connection: keep-alive was sent.
KeepAlivePolicyShutdown_as_1_0(version, options) ==
    IF version = HTTP_1_0 \/ version = HTTP_1_1
    THEN ~HasOption(options, HTTP_CONNECTION_KEEP_ALIVE)
    ELSE TRUE

KeepAlivePolicyShutdown(version, options) ==
    IF version = HTTP_1_0
    THEN ~HasOption(options, HTTP_CONNECTION_KEEP_ALIVE)
    ELSE IF version = HTTP_1_1
    THEN HasOption(options, HTTP_CONNECTION_CLOSE)
    ELSE TRUE

\* What the read event records about one processed request.
Entry(msg, code, match, r, pre, called, post) ==
    [req |-> msg, code |-> code, match |-> match,
     emitted |-> r.ret = 0, processed |-> r.c.alive /\ ~r.crashed,
     allowed |-> PathMethods(http_uri_new(msg.u)),
     pre_alive |-> pre.c.alive, pre_sd |-> pre.c.shutting_down,
     pre_rd |-> pre.c.ev_read, from |-> Len(pre.appended) + 1,
     sd_called |-> called, sd_ret |-> IF called THEN post.ret ELSE 0,
     alive |-> post.c.alive, sd |-> post.c.shutting_down,
     rd |-> post.c.ev_read, to |-> Len(post.appended),
     uaf |-> post.uaf]

\* The comparison made with the root path instead of the asterisk.
IsAsteriskForm_root(uri) == uri = "/"

\* strcmp(msg->u.request.uri, "*") == 0
IsAsteriskForm(uri) == uri = "*"

\* The status a request is answered with; HTTP_OK stands for a request
\* that is handed to the handler of its route.
ResponseCode(msg, env) ==
    LET path == http_uri_new(msg.u)
        found == http_route_base_find_msg_handler(msg.m, path, env)
    IN  IF IsAsteriskForm(msg.u) THEN HTTP_BAD_REQUEST
        ELSE IF path = "NULL" THEN HTTP_BAD_REQUEST
        ELSE IF found.handler # "NULL" THEN HTTP_OK
        ELSE IF found.match_result = "WRONG_METHOD"
             THEN HTTP_METHOD_NOT_ALLOWED
        ELSE HTTP_NOT_FOUND

\* What the route base reported, "none" when it was not asked.
MatchResult(msg, env) ==
    IF IsAsteriskForm(msg.u) \/ http_uri_new(msg.u) = "NULL" THEN "none"
    ELSE http_route_base_find_msg_handler(
             msg.m, http_uri_new(msg.u), env).match_result

LogEntry(pre, msg, code, r, called, post, env) ==
    [post EXCEPT !.evlog =
        Append(@, Entry(msg, code, MatchResult(msg, env), r, pre, called, post))]

\* A failed shutdown released the connection; the error is then logged
\* through connection->server.
process_msg_shutdown_error(s2, env) ==
    IF s2.ret = -1 /\ ~Stopped(s2) THEN UseAfterFree(s2, env) ELSE s2

\* The policy carried out by closing at once instead of shutting down.
process_msg_close_at_once(s1, do_shutdown, env) ==
    IF do_shutdown THEN http_connection_close(s1) ELSE s1

process_msg_shutdown(s1, do_shutdown, env) ==
    IF do_shutdown
    THEN process_msg_shutdown_error(http_connection_shutdown(s1, env), env)
    ELSE s1

\* The end: label, s1 being the connection after the handler or the error.
process_msg_end(s, msg, code, s1, env) ==
    IF s1.crashed THEN LogEntry(s, msg, code, s1, FALSE, s1, env)
    \* msg->version is read from the parser of a released connection
    ELSE IF ~s1.c.alive
         THEN LogEntry(s, msg, code, s1, FALSE, UseAfterFree(s1, env), env)
    ELSE LogEntry(s, msg, code, s1, KeepAlivePolicyShutdown(msg.v, msg.o),
                  process_msg_shutdown(
                      s1, KeepAlivePolicyShutdown(msg.v, msg.o), env), env)

process_msg_respond(s, s0, msg, code, env) ==
    process_msg_end(s, msg, code,
                    IF code = HTTP_OK THEN handler(s0, msg, env)
                    ELSE http_connection_http_error(s0, code, env),
                    env)

\* The request processed without taking over the version of the message.
process_msg_keeps_version(s, env) ==
    process_msg_respond(s, s, s.c.parser.msg,
                        ResponseCode(s.c.parser.msg, env), env)

http_connection_process_msg(s, env) ==
    process_msg_respond(s, [s EXCEPT !.c.http_version = s.c.parser.msg.v],
                        s.c.parser.msg, ResponseCode(s.c.parser.msg, env), env)

\* The parse failure answered by the shutdown alone, without a response.
on_parse_failure_without_response(p, env) == http_connection_shutdown(p, env)

\* http_msg_parse returned -1: answer 500 and shut the connection down.
on_parse_failure(p, env) ==
    http_connection_shutdown(
        http_connection_http_error(p, HTTP_INTERNAL_SERVER_ERROR, env), env)

\* The parser error answered without the shutdown that follows.
on_parser_error_without_shutdown(p, env) ==
    http_connection_http_error(p, p.c.parser.status_code, env)

\* The parser is in its error state: answer with the status it staged
\* and shut the connection down.
on_parser_error(p, env) ==
    http_connection_shutdown(
        http_connection_http_error(p, p.c.parser.status_code, env), env)

RECURSIVE ReadLoop(_, _)
RECURSIVE ReadLoopParsed(_, _)
RECURSIVE ReadLoopProcessed(_, _)
RECURSIVE ReadLoopReset(_, _)

\* The failed reset that ends the read event and leaves the connection.
reset_failure_without_close(reset, env) ==
    IF reset.ret = -1 THEN Ret([reset EXCEPT !.rf = ResetFailure(reset)], -1)
    ELSE ReadLoop(reset, env)

\* After http_parser_reset.
ReadLoopReset(reset, env) ==
    IF reset.ret = -1
    THEN Ret(http_connection_close(
                 [reset EXCEPT !.rf = ResetFailure(reset)]), -1)
    ELSE ReadLoop(reset, env)

\* After http_connection_process_msg.
ReadLoopProcessed(done, env) ==
    IF Stopped(done) THEN Ret(done, -1)
    ELSE ReadLoopReset(http_parser_reset(done, env), env)

\* if (cfg->request_hook) cfg->request_hook(connection, msg, hook_arg):
\* the hook of the server program prints the request and leaves the
\* connection alone. The call is recorded with the message, the number of
\* requests processed and the number of tokens appended at that moment.
request_hook(p) ==
    IF server_cfg.cfg.request_hook = "NULL" THEN p
    ELSE [p EXCEPT !.hooks = Append(@, [req |-> p.c.parser.msg,
                                        n |-> Len(p.evlog),
                                        at |-> Len(p.appended)])]

\* The loop body that calls the request hook after the request has been
\* processed.
read_loop_hook_after_processing(p, env) ==
    IF p.ret = -1 THEN Ret(on_parse_failure(p, env), -1)
    ELSE IF p.ret = 0 THEN Ret(p, 0)
    ELSE IF p.c.parser.state = "ERROR" THEN Ret(on_parser_error(p, env), -1)
    ELSE IF p.c.parser.state = "DONE"
         THEN ReadLoopProcessed(
                  request_hook(http_connection_process_msg(p, env)), env)
    ELSE ReadLoop(p, env)

\* After http_msg_parse.
ReadLoopParsed(p, env) ==
    IF p.ret = -1 THEN Ret(on_parse_failure(p, env), -1)
    ELSE IF p.ret = 0 THEN Ret(p, 0)
    ELSE IF p.c.parser.state = "ERROR" THEN Ret(on_parser_error(p, env), -1)
    ELSE IF p.c.parser.state = "DONE"
         THEN ReadLoopProcessed(
                  http_connection_process_msg(request_hook(p), env), env)
    ELSE ReadLoop(p, env)

\* The for (;;) of the read event; ret = 0 when the loop ends in break,
\* -1 when the function returns from inside the loop.
ReadLoop(s, env) == ReadLoopParsed(http_msg_parse(s, env), env)

http_now_ms(s, t, env) ==
    IF Fails(s, env) THEN Ret(Call(s), -1)
    ELSE Ret([Call(s) EXCEPT !.c.last_activity = t], 0)

\* After the loop: the connection's activity is stamped.
on_read_event_end(r, t, env) ==
    IF r.ret = -1 THEN r ELSE http_now_ms(r, t, env)

\* The read event that takes a zero-length read for a short read, and
\* answers a failed read before closing.
on_read_event_zero_not_close(s, ret, data, t, env) ==
    IF ret = -1
    THEN http_connection_close(
             http_connection_http_error(s, HTTP_INTERNAL_SERVER_ERROR, env))
    ELSE on_read_event_end(ReadLoop([s EXCEPT !.c.rbuf = @ \o data], env),
                           t, env)

\* ret is what bf_buffer_read returned, data the bytes it appended.
http_connection_on_read_event(s, ret, data, t, env) ==
    IF ret = -1 \/ ret = 0 THEN http_connection_close(s)
    ELSE on_read_event_end(ReadLoop([s EXCEPT !.c.rbuf = @ \o data], env),
                           t, env)

\* The write event without its bf_buffer_skip: what the socket took stays
\* in the buffer.
on_write_event_without_skip(s, ret, env) ==
    IF ret = -1 THEN http_connection_close(s)
    ELSE IF Len(s.c.wbuf) = 0
    THEN IF s.c.shutting_down THEN http_connection_close(Call(s))
         ELSE [Call(s) EXCEPT !.c.ev_write = "idle"]
    ELSE s

\* The write event that removes its registration after every write.
on_write_event_disarms_always(s, ret, env) ==
    IF ret = -1 THEN http_connection_close(s)
    ELSE IF Len(bf_buffer_skip(s.c.wbuf, ret)) = 0 /\ s.c.shutting_down
    THEN http_connection_close(Call(s))
    ELSE [Call(s) EXCEPT !.c.wbuf = bf_buffer_skip(@, ret),
                         !.c.ev_write = "idle"]

\* The write event that counts as activity of the peer.
on_write_event_stamps_activity(s, ret, env) ==
    IF ret = -1 THEN http_connection_close(s)
    ELSE IF Len(bf_buffer_skip(s.c.wbuf, ret)) # 0
    THEN [s EXCEPT !.c.wbuf = bf_buffer_skip(@, ret),
                   !.c.last_activity = now]
    ELSE IF s.c.shutting_down THEN http_connection_close(Call(s))
    ELSE IF Fails(s, env) THEN [Call(s) EXCEPT !.c.wbuf = << >>]
    ELSE [Call(s) EXCEPT !.c.wbuf = << >>, !.c.ev_write = "idle"]

\* ret is what bf_buffer_write returned.
http_connection_on_write_event(s, ret, env) ==
    IF ret = -1 THEN http_connection_close(s)
    ELSE
    LET skipped == [s EXCEPT !.c.wbuf = bf_buffer_skip(@, ret)]
        deleted == IF Fails(skipped, env) THEN Call(skipped)   \* event_del
                   ELSE [Call(skipped) EXCEPT !.c.ev_write = "idle"]
    IN  IF Len(skipped.c.wbuf) = 0
        THEN IF deleted.c.shutting_down
             THEN http_connection_close(deleted)
             ELSE deleted
        ELSE skipped

http_connection_setup(s, sock, t, env) ==
    LET c0 == [NullConn EXCEPT !.alive = TRUE, !.sock = sock]
        s0 == [s EXCEPT !.c = c0]
        \* event_new, event_add (read)
        s1 == [Call(s0) EXCEPT !.c.ev_read = "idle"]
        s2 == [Call(s1) EXCEPT !.c.ev_read = "armed"]
        \* event_new (write): a failure sets the error and goes on
        s3 == IF Fails(s2, env) THEN Call(s2)
              ELSE [Call(s2) EXCEPT !.c.ev_write = "idle"]
        \* bf_buffer_new twice, http_parser_init
        s4 == Call(s3)
        s5 == Call(s4)
        s6 == [Call(s5) EXCEPT !.c.parser = NullParser,
                               !.c.http_version = HTTP_1_1]
        s7 == http_now_ms(s6, t, env)
        error(x) == Ret(http_connection_close(Call(x)), -1)
    IN  IF Fails(s0, env) THEN error(s0)
        ELSE IF Fails(s1, env) THEN error(s1)
        ELSE IF Fails(s3, env) THEN error(s3)
        ELSE IF Fails(s4, env) THEN error(s4)
        ELSE IF Fails(s5, env) THEN error(s5)
        ELSE IF s7.ret = -1 THEN Ret(http_connection_close(s7), -1)
        ELSE Ret(s7, 0)

----------------------------------------------------------------------------
(* cfg.c *)

\* struct http_cfg after memset(cfg, 0, sizeof(struct http_cfg)).
ZeroCfg ==
    [host |-> "NULL", port |-> "NULL",
     connection_backlog |-> 0, max_request_uri_length |-> 0,
     max_header_name_length |-> 0, max_header_value_length |-> 0,
     max_content_length |-> 0, max_chunk_length |-> 0,
     bufferization |-> "0", connection_timeout |-> 0,
     content_decoders |-> << >>, nb_content_decoders |-> 0,
     request_hook |-> "NULL"]

\* A struct http_cfg that was never initialised holds anything.
RawCfgs ==
    { ZeroCfg,
      [ZeroCfg EXCEPT !.max_content_length = 1, !.connection_timeout = 1,
                      !.bufferization = "HTTP_BUFFERIZE_NONE",
                      !.nb_content_decoders = 2] }

Decoder(content_type, decode, delete) ==
    [content_type |-> content_type, decode |-> decode, delete |-> delete]

\* The NULL that http_cfg_content_decoder_get returns for no decoder.
NoDecoder == Decoder("NULL", "NULL", "NULL")

\* The result of a function of cfg.c: the configuration and the value
\* returned.
CfgResult(cfg, ret) == [cfg |-> cfg, ret |-> ret]

\* The decoder stored over the first element of the array.
decoder_add_at_front(cfg, content_type, decode, delete, fail) ==
    IF fail THEN CfgResult(cfg, -1)
    ELSE CfgResult(
             [cfg EXCEPT
                 !.content_decoders =
                     [i \in 1..(cfg.nb_content_decoders + 1) |->
                         IF i = 1 THEN Decoder(content_type, decode, delete)
                         ELSE IF i <= Len(cfg.content_decoders)
                              THEN cfg.content_decoders[i]
                              ELSE NoDecoder],
                 !.nb_content_decoders = cfg.nb_content_decoders + 1], 0)

\* fail: http_malloc or http_realloc returns NULL.  The array grows by one
\* element and the decoder is stored at index nb_content_decoders.
http_cfg_content_decoder_add(cfg, content_type, decode, delete, fail) ==
    IF fail THEN CfgResult(cfg, -1)
    ELSE CfgResult(
             [cfg EXCEPT
                 !.content_decoders =
                     [i \in 1..(cfg.nb_content_decoders + 1) |->
                         IF i = cfg.nb_content_decoders + 1
                         THEN Decoder(content_type, decode, delete)
                         ELSE cfg.content_decoders[i]],
                 !.nb_content_decoders = cfg.nb_content_decoders + 1], 0)

http_cfg_free(cfg) == ZeroCfg

\* The assignments of http_cfg_init that follow the built-in decoder.
cfg_init_defaults(added) ==
    IF added.ret = -1 THEN CfgResult(http_cfg_free(added.cfg), -1)
    ELSE CfgResult(
             [added.cfg EXCEPT
                 !.host = "localhost", !.port = "80",
                 !.connection_backlog = 5,
                 !.max_request_uri_length = 2048,
                 !.max_header_name_length = 128,
                 !.max_header_value_length = 4096,
                 !.max_content_length = 16 * 1000 * 1000,
                 !.max_chunk_length = 1000 * 1000,
                 !.bufferization = "HTTP_BUFFERIZE_AUTO",
                 !.connection_timeout = 10000], 0)

\* The initialisation with the limits of the content and of one chunk
\* taken for each other.
cfg_init_limits_swapped(cfg, fail) ==
    LET r == cfg_init_defaults(
                 http_cfg_content_decoder_add(
                     ZeroCfg, "application/x-www-form-urlencoded",
                     "http_content_form_data_decode",
                     "http_content_form_data_delete", fail))
    IN  IF r.ret = -1 THEN r
        ELSE CfgResult([r.cfg EXCEPT
                           !.max_content_length = r.cfg.max_chunk_length,
                           !.max_chunk_length = r.cfg.max_content_length], 0)

\* The structure is cleared first, so nothing of cfg is read.
http_cfg_init(cfg, fail) ==
    cfg_init_defaults(
        http_cfg_content_decoder_add(
            ZeroCfg, "application/x-www-form-urlencoded",
            "http_content_form_data_decode",
            "http_content_form_data_delete", fail))

\* The lookup that returns the decoder registered last for the type.
decoder_get_latest(cfg, content_type) ==
    LET found == { i \in 1..cfg.nb_content_decoders :
                     cfg.content_decoders[i].content_type = content_type }
    IN  IF found = {} THEN NoDecoder
        ELSE cfg.content_decoders[
                 CHOOSE i \in found : \A j \in found : i >= j]

\* The first decoder of the array whose content type is the one asked
\* for, NULL when there is none.
http_cfg_content_decoder_get(cfg, content_type) ==
    LET found == { i \in 1..cfg.nb_content_decoders :
                     cfg.content_decoders[i].content_type = content_type }
    IN  IF found = {} THEN NoDecoder
        ELSE cfg.content_decoders[
                 CHOOSE i \in found : \A j \in found : i <= j]

\* The content types and functions an application registers.
ContentTypes ==
    {"application/json", "text/plain", "application/x-www-form-urlencoded"}

DecodeFuncs == {"decode_a", "decode_b"}

----------------------------------------------------------------------------
(* The message parser, octet by octet *)

\* A stream is a sequence of octets, except that a method name, a version,
\* the header names Content-Length and Transfer-Encoding and the coding
\* name chunked travel as one element each.  The requests and units of
\* the connection model above are the messages and lines of this parser.
SP == " "
CR == "\r"
LF == "\n"

MethodNames == {"GET", "POST", "HEAD", "PUT", "DELETE", "OPTIONS"}

VersionNames == {"HTTP/1.0", "HTTP/1.1"}

VersionOf(name) == IF name = "HTTP/1.0" THEN HTTP_1_0 ELSE HTTP_1_1

Digits == << "0", "1", "2", "3", "4", "5", "6", "7", "8", "9" >>

IsDigit(ch) == \E i \in 1..Len(Digits) : Digits[i] = ch

DigitValue(ch) == (CHOOSE i \in 1..Len(Digits) : Digits[i] = ch) - 1

AllDigits(seq) == seq # << >> /\ \A i \in 1..Len(seq) : IsDigit(seq[i])

RECURSIVE Number(_, _)
\* The value of a sequence of digits in the given base.
Number(seq, base) ==
    IF seq = << >> THEN 0
    ELSE Number(SubSeq(seq, 1, Len(seq) - 1), base) * base
         + DigitValue(seq[Len(seq)])

Repeat(ch, n) == [i \in 1..n |-> ch]

Smaller(a, b) == IF a < b THEN a ELSE b

RECURSIVE FirstCRLF(_, _)
\* The index of the first CR LF of buf at or after index i, 0 for none.
FirstCRLF(buf, i) ==
    IF i >= Len(buf) THEN 0
    ELSE IF buf[i] = CR /\ buf[i + 1] = LF THEN i
    ELSE FirstCRLF(buf, i + 1)

\* The first line of a buffer that holds a CR LF, and what follows it.
Line(buf) == SubSeq(buf, 1, FirstCRLF(buf, 1) - 1)

AfterLine(buf) == SubSeq(buf, FirstCRLF(buf, 1) + 2, Len(buf))

\* The index of the first ch of seq, 0 for none.
IndexOf(seq, ch) ==
    IF \E i \in 1..Len(seq) : seq[i] = ch
    THEN CHOOSE i \in 1..Len(seq) :
             seq[i] = ch /\ \A j \in 1..(i - 1) : seq[j] # ch
    ELSE 0

Has(seq, ch) == \E i \in 1..Len(seq) : seq[i] = ch

RECURSIVE TrimLeft(_)
TrimLeft(seq) ==
    IF seq # << >> /\ Head(seq) = SP THEN TrimLeft(Tail(seq)) ELSE seq

RECURSIVE TrimRight(_)
TrimRight(seq) ==
    IF seq # << >> /\ seq[Len(seq)] = SP
    THEN TrimRight(SubSeq(seq, 1, Len(seq) - 1))
    ELSE seq

\* struct http_msg of a request, as http_msg_init leaves it.  chunk_sizes
\* is an observation: the sizes of the chunk size lines parsed so far.
NewMsg ==
    [method |-> "", uri |-> << >>, version |-> HTTP_1_0, headers |-> << >>,
     body |-> << >>, total_body_length |-> 0, is_body_chunked |-> FALSE,
     has_content_length |-> FALSE, content_length |-> 0,
     is_complete |-> FALSE, aborted |-> FALSE, chunk_sizes |-> << >>]

\* struct http_parser after http_parser_init or http_parser_reset.
\* chunk_left is -1 when a chunk size line is next, the octets of chunk
\* data still to come when positive, 0 when the CR LF after them is next.
NewParser ==
    [state |-> "START", msg |-> NewMsg, status_code |-> 0, chunk_left |-> -1]

\* What one call of the parser leaves: the buffer, the parser and the
\* value returned (0: more octets are needed, 1: the parser advanced).
Parsed(buf, parser, ret) == [buf |-> buf, parser |-> parser, ret |-> ret]

http_parser_fail(buf, parser, status_code) ==
    Parsed(buf, [parser EXCEPT !.state = "ERROR",
                               !.status_code = status_code], 1)

\* The request line with a target of the longest length refused.
request_line_limit_inclusive(rest, parser, line, cfg) ==
    IF Len(line) < 5 \/ line[2] # SP \/ line[Len(line) - 1] # SP
    THEN http_parser_fail(rest, parser, HTTP_BAD_REQUEST)
    ELSE IF line[1] \notin MethodNames
    THEN http_parser_fail(rest, parser, HTTP_NOT_IMPLEMENTED)
    ELSE IF Len(line) - 4 >= cfg.max_request_uri_length
    THEN http_parser_fail(rest, parser, HTTP_REQUEST_URI_TOO_LONG)
    ELSE Parsed(rest, [parser EXCEPT
                          !.state = "HEADER",
                          !.msg.method = line[1],
                          !.msg.uri = SubSeq(line, 3, Len(line) - 2),
                          !.msg.version = VersionOf(line[Len(line)])], 1)

\* METHOD SP REQUEST-TARGET SP VERSION, the line being complete.
request_line(rest, parser, line, cfg) ==
    IF Len(line) < 5 \/ line[2] # SP \/ line[Len(line) - 1] # SP
    THEN http_parser_fail(rest, parser, HTTP_BAD_REQUEST)
    ELSE IF line[1] \notin MethodNames
    THEN http_parser_fail(rest, parser, HTTP_NOT_IMPLEMENTED)
    ELSE IF Has(SubSeq(line, 3, Len(line) - 2), SP)
    THEN http_parser_fail(rest, parser, HTTP_BAD_REQUEST)
    ELSE IF Len(line) - 4 > cfg.max_request_uri_length
    THEN http_parser_fail(rest, parser, HTTP_REQUEST_URI_TOO_LONG)
    ELSE IF line[Len(line)] \notin VersionNames
    THEN http_parser_fail(rest, parser, HTTP_HTTP_VERSION_NOT_SUPPORTED)
    ELSE Parsed(rest, [parser EXCEPT
                          !.state = "HEADER",
                          !.msg.method = line[1],
                          !.msg.uri = SubSeq(line, 3, Len(line) - 2),
                          !.msg.version = VersionOf(line[Len(line)])], 1)

http_msg_parse_request_line(buf, parser, cfg) ==
    IF FirstCRLF(buf, 1) = 0 THEN Parsed(buf, parser, 0)
    ELSE request_line(AfterLine(buf), parser, Line(buf), cfg)

\* A header field of a header section or of a trailer.
header_field(rest, parser, name, value, cfg) ==
    IF name = << >> \/ Has(name, SP)
    THEN http_parser_fail(rest, parser, HTTP_BAD_REQUEST)
    ELSE IF Len(name) > cfg.max_header_name_length
    THEN http_parser_fail(rest, parser, HTTP_REQUEST_HEADER_FIELDS_TOO_LARGE)
    ELSE IF Len(value) > cfg.max_header_value_length
    THEN http_parser_fail(rest, parser, HTTP_REQUEST_HEADER_FIELDS_TOO_LARGE)
    ELSE Parsed(rest, [parser EXCEPT
                          !.msg.headers =
                              Append(@, [name |-> name, value |-> value])], 1)

\* name ":" value, the value trimmed of the spaces around it.
header_line(rest, parser, line, cfg) ==
    IF IndexOf(line, ":") = 0
    THEN http_parser_fail(rest, parser, HTTP_BAD_REQUEST)
    ELSE header_field(
             rest, parser, SubSeq(line, 1, IndexOf(line, ":") - 1),
             TrimRight(TrimLeft(
                 SubSeq(line, IndexOf(line, ":") + 1, Len(line)))), cfg)

\* The values of the headers of a message that have the given name.
HeaderValues(msg, name) ==
    { msg.headers[i].value :
        i \in { j \in 1..Len(msg.headers) : msg.headers[j].name = << name >> } }

\* The empty line that ends the header section: the coding and the length
\* of the body are taken from the headers.  A request without a length
\* and without the chunked coding has no body.
headers_processed(rest, parser, cfg) ==
    LET te == HeaderValues(parser.msg, "Transfer-Encoding")
        cl == HeaderValues(parser.msg, "Content-Length")
    IN  IF \E v \in te : Has(v, "chunked")
        THEN Parsed(rest, [parser EXCEPT !.state = "BODY",
                                         !.msg.is_body_chunked = TRUE,
                                         !.chunk_left = -1], 1)
        ELSE IF cl = {}
        THEN Parsed(rest, [parser EXCEPT !.state = "DONE",
                                         !.msg.is_complete = TRUE], 1)
        ELSE IF Cardinality(cl) > 1 \/ \E v \in cl : ~AllDigits(v)
        THEN http_parser_fail(rest, parser, HTTP_BAD_REQUEST)
        ELSE IF \E v \in cl : Number(v, 10) > cfg.max_content_length
        THEN http_parser_fail(rest, parser, HTTP_REQUEST_ENTITY_TOO_LARGE)
        ELSE Parsed(rest, [parser EXCEPT
                              !.state = "BODY",
                              !.msg.has_content_length = TRUE,
                              !.msg.content_length =
                                  Number(CHOOSE v \in cl : TRUE, 10)], 1)

http_msg_parse_headers(buf, parser, cfg) ==
    IF FirstCRLF(buf, 1) = 0 THEN Parsed(buf, parser, 0)
    ELSE IF Line(buf) = << >>
    THEN headers_processed(AfterLine(buf), parser, cfg)
    ELSE header_line(AfterLine(buf), parser, Line(buf), cfg)

\* The octets taken without the total being counted.
take_body_uncounted(buf, parser, n) ==
    Parsed(SubSeq(buf, n + 1, Len(buf)),
           [parser EXCEPT !.msg.body = @ \o SubSeq(buf, 1, n)], 1)

\* n octets of the buffer go to the body of the message.
TakeBody(buf, parser, n) ==
    Parsed(SubSeq(buf, n + 1, Len(buf)),
           [parser EXCEPT !.msg.body = @ \o SubSeq(buf, 1, n),
                          !.msg.total_body_length = @ + n], 1)

\* HEX-SIZE, the line being complete.
chunk_size_line(rest, parser, line, cfg) ==
    IF ~AllDigits(line)
    THEN http_parser_fail(rest, parser, HTTP_BAD_REQUEST)
    ELSE IF Number(line, 16) > cfg.max_chunk_length
    THEN http_parser_fail(rest, parser, HTTP_REQUEST_ENTITY_TOO_LARGE)
    ELSE IF Number(line, 16) = 0
    THEN Parsed(rest, [parser EXCEPT
                          !.state = "TRAILER",
                          !.msg.chunk_sizes = Append(@, 0)], 1)
    ELSE Parsed(rest, [parser EXCEPT
                          !.chunk_left = Number(line, 16),
                          !.msg.chunk_sizes = Append(@, Number(line, 16))], 1)

\* The data of a chunk, as much of it as the buffer holds.
chunk_data(buf, parser, n) ==
    IF n = 0 THEN Parsed(buf, parser, 0)
    ELSE Parsed(TakeBody(buf, parser, n).buf,
                [TakeBody(buf, parser, n).parser EXCEPT !.chunk_left = @ - n],
                1)

http_msg_parse_chunk(buf, parser, cfg) ==
    IF parser.chunk_left = -1
    THEN IF FirstCRLF(buf, 1) = 0 THEN Parsed(buf, parser, 0)
         ELSE chunk_size_line(AfterLine(buf), parser, Line(buf), cfg)
    ELSE IF parser.chunk_left > 0
    THEN chunk_data(buf, parser, Smaller(parser.chunk_left, Len(buf)))
    ELSE IF Len(buf) < 2 THEN Parsed(buf, parser, 0)
    ELSE IF buf[1] = CR /\ buf[2] = LF
    THEN Parsed(SubSeq(buf, 3, Len(buf)),
                [parser EXCEPT !.chunk_left = -1], 1)
    ELSE http_parser_fail(buf, parser, HTTP_BAD_REQUEST)

\* The body that takes every octet the buffer holds.
parse_body_takes_buffer(buf, parser, cfg) ==
    IF parser.msg.is_body_chunked THEN http_msg_parse_chunk(buf, parser, cfg)
    ELSE IF parser.msg.content_length > Len(parser.msg.body) /\ buf = << >>
    THEN Parsed(buf, parser, 0)
    ELSE Parsed(<< >>,
                [TakeBody(buf, parser, Len(buf)).parser EXCEPT
                    !.state =
                        IF Len(parser.msg.body) + Len(buf)
                               >= parser.msg.content_length
                        THEN "DONE" ELSE "BODY",
                    !.msg.is_complete =
                        (Len(parser.msg.body) + Len(buf)
                             >= parser.msg.content_length)], 1)

\* The body of content_length octets, as much of it as the buffer holds.
http_msg_parse_body(buf, parser, cfg) ==
    IF parser.msg.is_body_chunked THEN http_msg_parse_chunk(buf, parser, cfg)
    ELSE
    LET want == parser.msg.content_length - Len(parser.msg.body)
        n == Smaller(want, Len(buf))
    IN  IF want > 0 /\ n = 0 THEN Parsed(buf, parser, 0)
        ELSE Parsed(TakeBody(buf, parser, n).buf,
                    [TakeBody(buf, parser, n).parser EXCEPT
                        !.state = IF n = want THEN "DONE" ELSE "BODY",
                        !.msg.is_complete = (n = want)], 1)

\* The trailer: header fields up to an empty line.
msg_parse_trailer(buf, parser, cfg) ==
    IF FirstCRLF(buf, 1) = 0 THEN Parsed(buf, parser, 0)
    ELSE IF Line(buf) = << >>
    THEN Parsed(AfterLine(buf), [parser EXCEPT !.state = "DONE",
                                               !.msg.is_complete = TRUE], 1)
    ELSE header_line(AfterLine(buf), parser, Line(buf), cfg)

\* http_msg_parse on octets: one step of the state machine.
msg_parse_octets(buf, parser, cfg) ==
    CASE parser.state = "START" -> http_msg_parse_request_line(buf, parser, cfg)
      [] parser.state = "HEADER" -> http_msg_parse_headers(buf, parser, cfg)
      [] parser.state = "BODY" -> http_msg_parse_body(buf, parser, cfg)
      [] parser.state = "TRAILER" -> msg_parse_trailer(buf, parser, cfg)
      [] OTHER -> Parsed(buf, parser, 1)

\* A request as the peer composes it: the lengths of its target, of the
\* name and of the value of its header, the coding and the size of its
\* body; kind and n name the length that is set against its limit, and
\* pipelined tells that a second request follows on the stream.
Composed(kind, n, pipelined) ==
    [kind |-> kind, n |-> n, pipelined |-> pipelined,
     uri_len |-> IF kind = "uri" THEN n ELSE 1,
     name_len |-> IF kind = "name" THEN n ELSE 1,
     value_len |-> IF kind = "value" THEN n ELSE 1,
     coding |-> IF kind = "chunk" THEN "chunked"
                ELSE IF kind = "content" THEN "identity" ELSE "none",
     size |-> IF kind \in {"content", "chunk"} THEN n ELSE 0,
     second |-> 0]

\* A request whose chunked body has two chunks of data, of a and b octets.
TwoChunks(a, b) ==
    [Composed("chunk", a, FALSE) EXCEPT !.kind = "chunks", !.second = b]

BodyOctets(d) ==
    CASE d.coding = "identity" ->
             << "Content-Length", ":", Digits[d.size + 1], CR, LF, CR, LF >>
             \o Repeat("b", d.size)
      [] d.coding = "chunked" ->
             << "Transfer-Encoding", ":", SP, "chunked", CR, LF, CR, LF,
                Digits[d.size + 1], CR, LF >>
             \o Repeat("b", d.size) \o << CR, LF >>
             \o (IF d.second > 0
                 THEN << Digits[d.second + 1], CR, LF >>
                      \o Repeat("c", d.second) \o << CR, LF >>
                 ELSE << >>)
             \o << "0", CR, LF, CR, LF >>
      [] OTHER -> << CR, LF >>

\* The octets of a composed request.
Serialize(d) ==
    << "POST", SP, "/" >> \o Repeat("a", d.uri_len - 1)
    \o << SP, "HTTP/1.1", CR, LF >>
    \o Repeat("n", d.name_len) \o << ":", SP >> \o Repeat("v", d.value_len)
    \o << CR, LF >>
    \o BodyOctets(d)

\* The request that follows on a pipelined stream.
SecondRequest == << "GET", SP, "/", SP, "HTTP/1.0", CR, LF, CR, LF >>

StreamOf(d) ==
    IF d.pipelined THEN Serialize(d) \o SecondRequest ELSE Serialize(d)

LimitKinds == {"uri", "name", "value", "content", "chunk"}

\* The limit of a configuration that a kind of length is set against.
LimitOf(cfg, kind) ==
    CASE kind = "uri" -> cfg.max_request_uri_length
      [] kind = "name" -> cfg.max_header_name_length
      [] kind = "value" -> cfg.max_header_value_length
      [] kind = "content" -> cfg.max_content_length
      [] kind = "chunk" -> cfg.max_chunk_length

\* The configurations the parser is run with: every limit small.
ParserCfgs ==
    { [http_cfg_init(ZeroCfg, FALSE).cfg EXCEPT
          !.max_request_uri_length = u, !.max_header_name_length = n,
          !.max_header_value_length = v, !.max_content_length = c,
          !.max_chunk_length = k] :
      u \in 1..MaxLimit, n \in 1..MaxLimit, v \in 1..MaxLimit,
      c \in 1..MaxLimit, k \in 1..MaxLimit }

\* The requests tried under a configuration: each length at its limit
\* and one octet over it, and the bodies of two chunks within the limit.
ComposedUnder(cfg) ==
    { Composed(kind, LimitOf(cfg, kind) + over, pipelined) :
        kind \in LimitKinds, over \in {0, 1}, pipelined \in BOOLEAN }
    \cup { TwoChunks(a, b) : a \in 1..cfg.max_chunk_length,
                             b \in 1..cfg.max_chunk_length }

\* A parser fed with a stream: fed octets have been received so far.
Feeding(cfg, d) ==
    [cfg |-> cfg, input |-> d, stream |-> StreamOf(d), fed |-> 0,
     buf |-> << >>, parser |-> NewParser, done |-> << >>, status |-> 0]

\* No stream is fed to a parser of its own.
NoFeed == Feeding(http_cfg_init(ZeroCfg, FALSE).cfg, Composed("uri", 1, FALSE))

RECURSIVE ParseLoop(_, _)
\* The loop that forgets the octets the parser left for the next read.
parse_loop_drops_rest(f, r) ==
    IF r.ret = 0 THEN [f EXCEPT !.buf = << >>, !.parser = r.parser]
    ELSE IF r.parser.state = "ERROR"
    THEN [f EXCEPT !.buf = r.buf, !.parser = r.parser,
                   !.status = r.parser.status_code]
    ELSE IF r.parser.state = "DONE"
    THEN ParseLoop([f EXCEPT !.done = Append(@, r.parser.msg)],
                   msg_parse_octets(r.buf, NewParser, f.cfg))
    ELSE ParseLoop(f, msg_parse_octets(r.buf, r.parser, f.cfg))

\* The loop of the read event around the parser: r is what the latest
\* call left.  A message that is done is recorded and the parser reset.
ParseLoop(f, r) ==
    IF r.ret = 0 THEN [f EXCEPT !.buf = r.buf, !.parser = r.parser]
    ELSE IF r.parser.state = "ERROR"
    THEN [f EXCEPT !.buf = r.buf, !.parser = r.parser,
                   !.status = r.parser.status_code]
    ELSE IF r.parser.state = "DONE"
    THEN ParseLoop([f EXCEPT !.done = Append(@, r.parser.msg)],
                   msg_parse_octets(r.buf, NewParser, f.cfg))
    ELSE ParseLoop(f, msg_parse_octets(r.buf, r.parser, f.cfg))

\* The next k octets of the stream are read and the parser advanced.
Receive(f, k) ==
    ParseLoop([f EXCEPT !.fed = @ + k],
              msg_parse_octets(
                  f.buf \o SubSeq(f.stream, f.fed + 1, f.fed + k),
                  f.parser, f.cfg))

----------------------------------------------------------------------------
(* The route base *)

\* A path and a path template are strings of octets.  The octets that
\* occur, in the order of their codes.
PathOctets == << "*", "/", ":", "a", "b", "c", "i" >>

OctetCode(ch) == CHOOSE i \in 1..Len(PathOctets) : PathOctets[i] = ch

RECURSIVE StrCmp(_, _)
\* strcmp: negative, zero or positive.
StrCmp(a, b) ==
    IF a = << >> /\ b = << >> THEN 0
    ELSE IF a = << >> THEN -1
    ELSE IF b = << >> THEN 1
    ELSE IF Head(a) # Head(b)
    THEN (IF OctetCode(Head(a)) < OctetCode(Head(b)) THEN -1 ELSE 1)
    ELSE StrCmp(Tail(a), Tail(b))

RECURSIVE SplitSegments(_, _)
\* The segments of a string between its slashes, cur being the segment
\* that is read.
SplitSegments(rest, cur) ==
    IF rest = << >> THEN << cur >>
    ELSE IF Head(rest) = "/"
    THEN << cur >> \o SplitSegments(Tail(rest), << >>)
    ELSE SplitSegments(Tail(rest), Append(cur, Head(rest)))

\* A path split on '/': the slash it starts with opens the first segment,
\* and the path "/" has no segment.
SplitPath(path) ==
    IF path = << >> \/ path = << "/" >> THEN << >>
    ELSE IF Head(path) = "/" THEN SplitSegments(Tail(path), << >>)
    ELSE SplitSegments(path, << >>)

Component(type, value) == [type |-> type, value |-> value]

\* The component a segment of a template is compiled to.
ComponentOf(segment) ==
    IF segment = << "*" >> THEN Component("WILDCARD", << >>)
    ELSE IF segment # << >> /\ Head(segment) = ":"
    THEN Component("NAMED", Tail(segment))
    ELSE Component("STRING", segment)

\* The components of a template; ret is -1 for a wildcard that is not the
\* last segment.
http_route_components_parse(path) ==
    LET segments == SplitPath(path)
        components == [i \in 1..Len(segments) |-> ComponentOf(segments[i])]
    IN  IF \E i \in 1..(Len(segments) - 1) : components[i].type = "WILDCARD"
        THEN [ret |-> -1, components |-> << >>]
        ELSE [ret |-> 0, components |-> components]

\* A route, "NULL" standing for the route that could not be made.
http_route_new(method, path, msg_handler) ==
    IF http_route_components_parse(path).ret = -1
    THEN [method |-> "NULL", path |-> path, components |-> << >>,
          msg_handler |-> "NULL"]
    ELSE [method |-> method, path |-> path,
          components |-> http_route_components_parse(path).components,
          msg_handler |-> msg_handler]

http_route_base_new == [routes |-> << >>, sorted |-> FALSE]

\* An insertion is idempotent: a route the base holds is not added again.
http_route_base_add_route(base, route) ==
    IF \E i \in 1..Len(base.routes) : base.routes[i] = route THEN base
    ELSE [base EXCEPT !.routes = Append(@, route), !.sorted = FALSE]

TypeRank(type) ==
    CASE type = "STRING" -> 0
      [] type = "NAMED" -> 1
      [] type = "WILDCARD" -> 2

RECURSIVE ComponentsCmp(_, _)
\* The first position at which two templates differ in type decides.
ComponentsCmp(c1, c2) ==
    IF c1 = << >> \/ c2 = << >> THEN 0
    ELSE IF TypeRank(Head(c1).type) < TypeRank(Head(c2).type) THEN -1
    ELSE IF TypeRank(Head(c1).type) > TypeRank(Head(c2).type) THEN 1
    ELSE ComponentsCmp(Tail(c1), Tail(c2))

\* The order of the sort: the more specific template first, ties broken
\* on the template string.
http_route_cmp(r1, r2) ==
    IF ComponentsCmp(r1.components, r2.components) # 0
    THEN ComponentsCmp(r1.components, r2.components)
    ELSE StrCmp(r1.path, r2.path)

\* The arrangements of a sequence.
Arrangements(seq) ==
    { [i \in 1..Len(seq) |-> seq[p[i]]] :
        p \in { q \in [1..Len(seq) -> 1..Len(seq)] :
                  \A i, j \in 1..Len(seq) : i # j => q[i] # q[j] } }

InOrder(seq) ==
    \A i, j \in 1..Len(seq) : i < j => http_route_cmp(seq[i], seq[j]) <= 0

\* What the sort may leave: the routes in order, those that compare
\* equal in any order.
SortedRoutes(routes) == { seq \in Arrangements(routes) : InOrder(seq) }

RECURSIVE ComponentsMatch(_, _)
\* The components of a route against the segments of a path.
ComponentsMatch(components, segments) ==
    IF components = << >> THEN segments = << >>
    ELSE IF Head(components).type = "WILDCARD" THEN segments # << >>
    ELSE IF segments = << >> THEN FALSE
    ELSE IF Head(components).type = "NAMED"
    THEN Head(segments) # << >>
         /\ ComponentsMatch(Tail(components), Tail(segments))
    ELSE Head(components).value = Head(segments)
         /\ ComponentsMatch(Tail(components), Tail(segments))

RECURSIVE NamedParameters(_, _)
\* The segments the named components of a matching route capture.
NamedParameters(components, segments) ==
    IF components = << >> \/ segments = << >> THEN << >>
    ELSE IF Head(components).type = "NAMED"
    THEN << [name |-> Head(components).value, value |-> Head(segments)] >>
         \o NamedParameters(Tail(components), Tail(segments))
    ELSE IF Head(components).type = "WILDCARD" THEN << >>
    ELSE NamedParameters(Tail(components), Tail(segments))

Matched(route, segments) ==
    [match_result |-> "Matched", msg_handler |-> route.msg_handler,
     named_parameters |-> NamedParameters(route.components, segments)]

Mismatch(reason) ==
    [match_result |-> reason, msg_handler |-> "NULL",
     named_parameters |-> << >>]

RECURSIVE ScanRoutes(_, _, _, _, _)
\* The scan that gives up at the first route whose path matches.
scan_stops_at_first_path(routes, i, method, segments, path_matched) ==
    IF i > Len(routes)
    THEN Mismatch(IF path_matched THEN "WrongMethod" ELSE "WrongPath")
    ELSE IF ComponentsMatch(routes[i].components, segments)
    THEN IF routes[i].method = method THEN Matched(routes[i], segments)
         ELSE Mismatch("WrongMethod")
    ELSE ScanRoutes(routes, i + 1, method, segments, path_matched)

\* The scan of the routes from the i-th on, path_matched telling that a
\* route before matched the path with another method.
ScanRoutes(routes, i, method, segments, path_matched) ==
    IF i > Len(routes)
    THEN Mismatch(IF path_matched THEN "WrongMethod" ELSE "WrongPath")
    ELSE IF ComponentsMatch(routes[i].components, segments)
    THEN IF routes[i].method = method THEN Matched(routes[i], segments)
         ELSE ScanRoutes(routes, i + 1, method, segments, TRUE)
    ELSE ScanRoutes(routes, i + 1, method, segments, path_matched)

\* The lookup in a route base that is sorted.
http_route_base_find_route(base, method, path) ==
    ScanRoutes(base.routes, 1, method, SplitPath(path), FALSE)

\* The sort that leaves the routes as they were added.
sort_keeps_insertion_order(base) == { [base EXCEPT !.sorted = TRUE] }

\* The route base sorted before a lookup: once, when it is not sorted.
http_route_base_sort(base) ==
    IF base.sorted THEN {base}
    ELSE { [base EXCEPT !.routes = seq, !.sorted = TRUE] :
             seq \in SortedRoutes(base.routes) }

\* The routes an application may add, one of them with a template that
\* does not compile, and the lookups a connection may make.
RouteMenu ==
    { http_route_new("GET", << "/", "a" >>, "get_a"),
      http_route_new("POST", << "/", "a" >>, "post_a"),
      http_route_new("GET", << "/", ":", "i" >>, "get_named"),
      http_route_new("GET", << "/", "*" >>, "get_any"),
      http_route_new("POST", << "/", "a", "/", "*" >>, "post_under_a"),
      http_route_new("GET", << "/", "a", "/", ":", "i" >>, "get_a_named"),
      http_route_new("GET", << "/", "*", "/", "a" >>, "get_bad") }

LookupMethods == {"GET", "POST", "PUT"}

LookupPaths ==
    { << "/" >>, << "/", "a" >>, << "/", "b" >>, << "/", "a", "/", "b" >>,
      << "/", "a", "/" >>, << "/", "b", "/", "c" >> }

NoLookup == [method |-> "", path |-> << >>, result |-> Mismatch("none")]

\* No route base is exercised on its own.
NoRouteBase == [base |-> http_route_base_new, found |-> NoLookup]

----------------------------------------------------------------------------
(* Environment of a callback *)

Env(F, R) == [F |-> F, R |-> R]

NoFault(R) == Env({}, R)

DefaultNaming == [method |-> "WRONG_METHOD", path |-> "WRONG_PATH"]

\* At most one call fails inside one callback, among its first n calls.
FaultSetsAfter(cost, n) ==
    IF spent + cost < MaxInputs THEN {{}} \cup { {k} : k \in 1..n } ELSE {{}}

FaultSets(n) ==
    IF spent < MaxInputs THEN {{}} \cup { {k} : k \in 1..n } ELSE {{}}

Sign(n) == IF n > 0 THEN 1 ELSE IF n < 0 THEN -1 ELSE 0

Event(ev, ret) ==
    [ev |-> ev, ret |-> Sign(ret), added |-> 0, pf |-> NoParseFailure,
     errs |-> << >>, writes |-> << >>, rf |-> NoResetFailure,
     hooks |-> << >>]

NoHistory == [arrived |-> << >>, dispatched |-> << >>, clean |-> TRUE]

RECURSIVE Requests(_)
\* The requests of a sequence of evlog entries, in order.
Requests(log) ==
    IF log = << >> THEN << >> ELSE << Head(log).req >> \o Requests(Tail(log))

\* The callback ran from Machine to r, the environment gave `cost` inputs.
Commit(r, cost, ev) ==
    \* after undefined behaviour the process dies or runs on
    /\ \E dies \in (IF r.uaf THEN BOOLEAN ELSE {FALSE}) :
          crashed' = (r.crashed \/ dies)
    \* a process that died holds no connection any more
    /\ conn' = IF crashed' THEN NullConn ELSE r.c
    /\ connections' = IF crashed' THEN {} ELSE r.table
    /\ appended' = r.appended
    /\ evlog' = r.evlog
    /\ uaf' = (uaf \/ r.uaf)
    /\ spent' = spent + cost
    /\ last' = [ev EXCEPT !.added = Len(r.appended) - Len(appended),
                          !.pf = r.pf, !.errs = r.errs,
                          !.writes = r.writes, !.rf = r.rf,
                          !.hooks = r.hooks]
    /\ hist' = [hist EXCEPT
                  !.dispatched = @ \o Requests(r.evlog),
                  !.clean = @ /\ cost = 0 /\ ev.ret >= 0 /\ ~r.uaf /\ ~r.crashed]

\* What the socket may accept of n buffered bytes: all of them or half.
WriteSizes(n) == IF n = 0 THEN {0} ELSE {n} \cup ({n \div 2} \ {0})

----------------------------------------------------------------------------
(* Actions *)

\* No socket has been accepted yet.
NoConnection ==
    /\ conn = NullConn
    /\ connections = {}
    /\ net_in = << >>
    /\ peer_closed = FALSE
    /\ sent = << >>
    /\ now = 0
    /\ appended = << >>
    /\ evlog = << >>
    /\ last = Event("init", 0)
    /\ hist = NoHistory
    /\ uaf = FALSE
    /\ crashed = FALSE
    /\ accepts = 0
    /\ requests = 0
    /\ timeouts = 0
    /\ spent = 0

\* The server runs with an initialised configuration.
Init ==
    /\ NoConnection
    /\ server_cfg = [phase |-> "ready",
                     cfg |-> [http_cfg_init(ZeroCfg, FALSE).cfg
                                EXCEPT !.request_hook = "https_on_request"]]
    /\ feed = NoFeed
    /\ route_base = NoRouteBase

\* The listener accepts a socket, sets the connection up and registers it.
Accept ==
    /\ ~crashed /\ ~conn.alive /\ accepts = 0
    /\ LET fresh == [Machine EXCEPT !.appended = << >>]
           n == http_connection_setup(
                    fresh, Sock, now, NoFault(DefaultNaming)).ops
       IN  \E F \in FaultSets(n) :
           LET r == http_connection_setup(
                        fresh, Sock, now, Env(F, DefaultNaming))
               reg == IF r.ret = 0 THEN [r EXCEPT !.table = @ \cup {Sock}]
                      ELSE r
           IN  /\ conn' = reg.c
               /\ connections' = reg.table
               /\ appended' = reg.appended
               /\ evlog' = << >>
               /\ spent' = spent + Cardinality(F)
               /\ last' = Event("accept", r.ret)
               /\ hist' = [NoHistory EXCEPT !.clean = F = {}]
    /\ accepts' = accepts + 1
    /\ net_in' = << >>
    /\ peer_closed' = FALSE
    /\ sent' = << >>
    /\ requests' = 0
    /\ timeouts' = 0
    /\ UNCHANGED <<server_cfg, feed, route_base, now, uaf, crashed>>

PeerSend ==
    /\ ~crashed /\ conn.alive /\ ~peer_closed /\ spent + 2 <= MaxInputs
    /\ \E r \in (IF requests = 0 THEN RequestMenu ELSE FollowMenu) :
          /\ net_in' = net_in \o Wire(r)
          /\ hist' = [hist EXCEPT !.arrived = Append(@, r)]
    /\ spent' = spent + 2
    /\ requests' = requests + 1
    /\ UNCHANGED <<server_cfg, feed, route_base, conn, connections, peer_closed, sent, now, appended, evlog,
                   last, uaf, crashed, accepts, timeouts>>

PeerSendMalformed ==
    /\ ~crashed /\ conn.alive /\ ~peer_closed /\ spent < MaxInputs
    /\ \E u \in MalformedMenu : net_in' = Append(net_in, u)
    /\ hist' = [hist EXCEPT !.clean = FALSE]
    /\ spent' = spent + 1
    /\ requests' = requests + 1
    /\ UNCHANGED <<server_cfg, feed, route_base, conn, connections, peer_closed, sent, now, appended, evlog,
                   last, uaf, crashed, accepts, timeouts>>

PeerClose ==
    /\ ~crashed /\ conn.alive /\ ~peer_closed /\ spent < MaxInputs
    /\ peer_closed' = TRUE
    /\ spent' = spent + 1
    /\ UNCHANGED <<server_cfg, feed, route_base, conn, connections, net_in, sent, now, appended, evlog,
                   last, hist, uaf, crashed, accepts, requests, timeouts>>

\* The reactor reports the socket readable.
ReadEvent ==
    /\ ~crashed /\ conn.alive /\ conn.ev_read = "armed"
    /\ \E ret \in {-1} \cup (IF net_in = << >> /\ peer_closed THEN {0} ELSE {})
                       \cup 1..Len(net_in) :
       LET data == IF ret > 0 THEN SubSeq(net_in, 1, ret) ELSE << >>
       IN  /\ \E R \in MatchNamings :
              LET n == http_connection_on_read_event(
                           Machine, ret, data, now, NoFault(R)).ops
              IN  \E F \in FaultSets(n) :
                  Commit(http_connection_on_read_event(
                             Machine, ret, data, now, Env(F, R)),
                         Cardinality(F), Event("read", ret))
           /\ net_in' = bf_buffer_skip(net_in, Len(data))
    /\ UNCHANGED <<server_cfg, feed, route_base, peer_closed, sent, now, accepts, requests, timeouts>>

\* The reactor reports the socket writable.
WriteEvent ==
    /\ ~crashed /\ conn.alive /\ conn.ev_write = "armed"
    /\ \E ret \in {-1} \cup WriteSizes(Len(conn.wbuf)) :
       /\ LET n == http_connection_on_write_event(
                       Machine, ret, NoFault(DefaultNaming)).ops
          IN  \E F \in FaultSets(n) :
              Commit(http_connection_on_write_event(
                         Machine, ret, Env(F, DefaultNaming)),
                     Cardinality(F), Event("write", ret))
       /\ sent' = IF ret > 0 THEN sent \o SubSeq(conn.wbuf, 1, ret) ELSE sent
    /\ UNCHANGED <<server_cfg, feed, route_base, net_in, peer_closed, now, accepts, requests, timeouts>>

\* 1 when the timeout check acts on the connection now, else 0.
Acted ==
    IF uint64_sub(now, conn.last_activity) > connection_timeout THEN 1 ELSE 0

\* The server's periodic timer checks every registered connection.
TimeoutTimer ==
    /\ ~crashed /\ conn.alive /\ conn.sock \in connections
    /\ Acted = 1 => spent < MaxInputs
    /\ LET n == http_connection_check_for_timeout(
                    Machine, now, NoFault(DefaultNaming)).ops
       IN  \E F \in FaultSetsAfter(Acted, n) :
           Commit(http_connection_check_for_timeout(
                      Machine, now, Env(F, DefaultNaming)),
                  Cardinality(F) + Acted, Event("timer", Acted))
    /\ timeouts' = timeouts + Acted
    /\ UNCHANGED <<server_cfg, feed, route_base, net_in, peer_closed, sent, now, accepts, requests>>

Tick ==
    /\ ~crashed /\ spent < MaxInputs /\ now < MaxTicks * connection_timeout
    /\ \E d \in ClockSteps : now' = now + d
    /\ spent' = spent + 1
    /\ UNCHANGED <<server_cfg, feed, route_base, conn, connections, net_in, peer_closed, sent, appended,
                   evlog, last, hist, uaf, crashed, accepts, requests, timeouts>>

\* The application calls the public http_connection_shutdown.
AppShutdown ==
    /\ ~crashed /\ conn.alive /\ spent < MaxInputs
    /\ LET n == http_connection_shutdown(
                    Machine, NoFault(DefaultNaming)).ops
       IN  \E F \in FaultSetsAfter(1, n) :
           LET r == http_connection_shutdown(
                        Machine, Env(F, DefaultNaming))
           IN  Commit(r, 1 + Cardinality(F), Event("shutdown", r.ret))
    /\ UNCHANGED <<server_cfg, feed, route_base, net_in, peer_closed, sent, now, accepts, requests, timeouts>>

Next ==
    \/ Accept
    \/ PeerSend
    \/ PeerSendMalformed
    \/ PeerClose
    \/ ReadEvent
    \/ WriteEvent
    \/ TimeoutTimer
    \/ Tick
    \/ AppShutdown

Spec == Init /\ [][Next]_vars

----------------------------------------------------------------------------
(* The configuration before the server listens *)

ConnectionVars ==
    <<conn, connections, net_in, peer_closed, sent, now, appended, evlog,
      last, hist, uaf, crashed, accepts, requests, timeouts, spent>>

CfgStart ==
    /\ NoConnection
    /\ \E raw \in RawCfgs : server_cfg = [phase |-> "raw", cfg |-> raw]
    /\ feed = NoFeed
    /\ route_base = NoRouteBase

\* The application calls http_cfg_init on its struct http_cfg.
CfgInitialise ==
    /\ server_cfg.phase = "raw"
    /\ \E fail \in BOOLEAN :
          LET r == http_cfg_init(server_cfg.cfg, fail)
          IN  server_cfg' = [phase |-> IF r.ret = 0 THEN "ready" ELSE "raw",
                             cfg |-> r.cfg]
    /\ UNCHANGED <<ConnectionVars, feed, route_base>>

\* The application registers one more content decoder.
CfgDecoderAdd ==
    /\ server_cfg.phase = "ready"
    /\ server_cfg.cfg.nb_content_decoders <= MaxDecoders
    /\ \E ct \in ContentTypes, decode \in DecodeFuncs, fail \in BOOLEAN :
          server_cfg' =
              [server_cfg EXCEPT !.cfg =
                  http_cfg_content_decoder_add(@, ct, decode, "delete", fail).cfg]
    /\ UNCHANGED <<ConnectionVars, feed, route_base>>

\* The application releases the configuration.
CfgFree ==
    /\ server_cfg.phase = "ready"
    /\ server_cfg' = [phase |-> "raw", cfg |-> http_cfg_free(server_cfg.cfg)]
    /\ UNCHANGED <<ConnectionVars, feed, route_base>>

CfgNext ==
    \/ CfgInitialise
    \/ CfgDecoderAdd
    \/ CfgFree

CfgSpec == CfgStart /\ [][CfgNext]_vars

----------------------------------------------------------------------------
(* A parser fed with the stream of a peer *)

ParserStart ==
    /\ NoConnection
    /\ server_cfg = [phase |-> "ready", cfg |-> http_cfg_init(ZeroCfg, FALSE).cfg]
    /\ \E cfg \in ParserCfgs : \E d \in ComposedUnder(cfg) :
          feed = Feeding(cfg, d)
    /\ route_base = NoRouteBase

\* A read brings the next octets of the stream, cut at any boundary.
ParserFeed ==
    /\ feed.status = 0 /\ feed.fed < Len(feed.stream)
    /\ \E k \in 1..(Len(feed.stream) - feed.fed) : feed' = Receive(feed, k)
    /\ UNCHANGED <<ConnectionVars, server_cfg, route_base>>

ParserNext == ParserFeed

ParserSpec == ParserStart /\ [][ParserNext]_vars

----------------------------------------------------------------------------
(* A route base that routes are added to and looked up in *)

RouteStart ==
    /\ NoConnection
    /\ server_cfg = [phase |-> "ready", cfg |-> http_cfg_init(ZeroCfg, FALSE).cfg]
    /\ feed = NoFeed
    /\ route_base = NoRouteBase

\* The application adds a route; a route that could not be made is not
\* added.  The latest lookup is of the base as it was: it is forgotten.
RouteAdd ==
    /\ Len(route_base.base.routes) < MaxRoutes
    /\ \E route \in RouteMenu :
          route_base' =
              [base |-> IF route.msg_handler = "NULL" THEN route_base.base
                        ELSE http_route_base_add_route(route_base.base, route),
               found |-> NoLookup]
    /\ UNCHANGED <<ConnectionVars, server_cfg, feed>>

\* A request is looked up: the base is sorted if need be, then scanned.
RouteFind ==
    /\ \E method \in LookupMethods, path \in LookupPaths :
       \E sorted \in http_route_base_sort(route_base.base) :
          route_base' =
              [base |-> sorted,
               found |-> [method |-> method, path |-> path,
                          result |-> http_route_base_find_route(
                                         sorted, method, path)]]
    /\ UNCHANGED <<ConnectionVars, server_cfg, feed>>

RouteNext ==
    \/ RouteAdd
    \/ RouteFind

RouteSpec == RouteStart /\ [][RouteNext]_vars

----------------------------------------------------------------------------
(* The timeout check on the values of two clock readings *)

\* Clock readings: around zero, around the timeout and around the largest
\* word.
Stamps ==
    {0, 1, connection_timeout, connection_timeout + 1,
     2 * connection_timeout, 2 * connection_timeout + 1,
     Word - connection_timeout - 1, Word - connection_timeout,
     Word - 2, Word - 1}

\* The machine http_connection_setup starts from.
FreshMachine ==
    [c |-> NullConn, table |-> {}, appended |-> << >>, evlog |-> << >>,
     uaf |-> FALSE, crashed |-> FALSE, ops |-> 0, ret |-> 0,
     pf |-> NoParseFailure, errs |-> << >>, writes |-> << >>,
     rf |-> NoResetFailure, hooks |-> << >>]

\* A registered connection stamped with one clock reading, and the sweep
\* holding another.
SweepStart ==
    /\ \E stamp \in Stamps :
          conn = http_connection_setup(FreshMachine, Sock, stamp,
                                       NoFault(DefaultNaming)).c
    /\ \E t \in Stamps : now = t
    /\ connections = {Sock}
    /\ net_in = << >> /\ peer_closed = FALSE /\ sent = << >>
    /\ appended = << >> /\ evlog = << >>
    /\ last = Event("accept", 0) /\ hist = NoHistory
    /\ uaf = FALSE /\ crashed = FALSE
    /\ accepts = 1 /\ requests = 0 /\ timeouts = 0 /\ spent = 0
    /\ server_cfg = [phase |-> "ready",
                     cfg |-> [http_cfg_init(ZeroCfg, FALSE).cfg
                                EXCEPT !.request_hook = "https_on_request"]]
    /\ feed = NoFeed
    /\ route_base = NoRouteBase

SweepNext ==
    \/ TimeoutTimer
    \/ WriteEvent

TimeoutSpec == SweepStart /\ [][SweepNext]_vars


----------------------------------------------------------------------------
(* Vocabulary of the properties *)

\* The keep-alive policy as the specification states it (section 4.3).
PolicyEndsConnection(req) ==
    \/ req.v = HTTP_1_0 /\ ~HasOption(req.o, HTTP_CONNECTION_KEEP_ALIVE)
    \/ req.v = HTTP_1_1 /\ HasOption(req.o, HTTP_CONNECTION_CLOSE)
    \/ req.v \notin {HTTP_1_0, HTTP_1_1}

IsPrefix(a, b) == Len(a) <= Len(b) /\ SubSeq(b, 1, Len(a)) = a

\* The status lines appended for the connection, in order.
Responses == SelectSeq(appended, IsStatus)

\* The tokens appended while the request of entry e was processed.
EntryTokens(e) == { appended[j] : j \in e.from..e.to }

EntryStatuses(e) == { tok.b : tok \in { x \in EntryTokens(e) : IsStatus(x) } }

\* Processing shut the connection down: it is shutting down with its read
\* interest removed, or the shutdown failed and released it.
EntryShutDown(e) ==
    /\ e.sd_called
    /\ e.sd_ret = 0 => e.alive /\ e.sd /\ e.rd = "idle"
    /\ e.sd_ret = -1 => ~e.alive

\* Processing left the connection as it was before the request.
EntryLeftOpen(e) ==
    /\ ~e.sd_called
    /\ e.alive /\ e.sd = e.pre_sd /\ e.rd = e.pre_rd
    /\ ~e.pre_sd => e.rd = "armed"

Routed(req) == [method |-> req.m, path |-> req.u] \in Routes

----------------------------------------------------------------------------
(* Properties *)

C2_Single408 ==
    Cardinality({ i \in 1..Len(appended) :
                    IsStatus(appended[i])
                    /\ appended[i].b = HTTP_REQUEST_TIMEOUT }) <= 1

\* C3 -- Per-connection ordering: requests are dispatched in the order
\* their bytes arrived, the tokens of their responses are appended in that
\* order, and the socket receives exactly the appended tokens in order:
\* nothing is reordered, duplicated or skipped while the connection lives.
C3_Ordering ==
    /\ IsPrefix(hist.dispatched, hist.arrived)
    /\ IsPrefix(sent, appended)
    /\ conn.alive => sent \o conn.wbuf = appended
    /\ \A i \in 1..Len(evlog) :
          /\ evlog[i].from <= evlog[i].to + 1
          /\ evlog[i].to <= Len(appended)
          /\ i < Len(evlog) => evlog[i].to < evlog[i + 1].from
          /\ \A tok \in EntryTokens(evlog[i]) :
                IsStatus(tok) => tok.a = evlog[i].req.v /\ tok.b = evlog[i].code

\* Two requests were dispatched and the socket took a part of the output.
C3_Witness ==
    /\ conn.alive /\ Len(hist.dispatched) = 2
    /\ sent # << >> /\ conn.wbuf # << >>

\* Nothing is left for the connection to read of what the peer has sent.
AllRead ==
    /\ conn.rbuf = << >> /\ conn.parser.state = "START"
    /\ conn.ev_read = "armed" => net_in = << >>

\* The i-th response answers the i-th request.
Answers(i) ==
    /\ Responses[i].a = hist.dispatched[i].v
    /\ Responses[i].b = HTTP_OK <=> Routed(hist.dispatched[i])

C5_DrainedShutdownCloses ==
    conn.alive /\ conn.shutting_down /\ conn.wbuf = << >> =>
        conn.ev_write = "armed"

\* C6 -- Parser error handling: once the parser of a connection is in its
\* error state (the connection still being there), a response carrying
\* the status the parser staged has been appended and the connection is
\* shutting down with its read interest removed; from then on nothing
\* more is parsed and no request is dispatched on it.
ParserErrorHandled ==
    conn.alive /\ conn.parser.state = "ERROR" =>
        /\ conn.shutting_down /\ conn.ev_read = "idle"
        /\ \E i \in 1..Len(Responses) :
              /\ Responses[i].b = conn.parser.status_code
              /\ Responses[i].a = conn.http_version

NothingParsedAfterError ==
    conn.alive /\ conn.parser.state = "ERROR" =>
        /\ hist'.dispatched = hist.dispatched
        /\ conn'.alive => conn'.parser = conn.parser /\ conn'.rbuf = conn.rbuf

C6_ParserError == [](ParserErrorHandled) /\ [][NothingParsedAfterError]_vars

\* A malformed message arrived behind a request: both were answered.
C6_Witness ==
    /\ conn.alive /\ conn.parser.state = "ERROR"
    /\ conn.parser.status_code = HTTP_HTTP_VERSION_NOT_SUPPORTED
    /\ Len(hist.dispatched) = 1 /\ Len(Responses) = 2
    /\ conn.shutting_down

C8_MismatchStatus ==
    \A i \in 1..Len(evlog) :
        evlog[i].match \notin {"none", "OK"} =>
            /\ evlog[i].allowed # {} =>
                  /\ evlog[i].code = HTTP_METHOD_NOT_ALLOWED
                  /\ EntryStatuses(evlog[i]) \subseteq {HTTP_METHOD_NOT_ALLOWED}
            /\ evlog[i].allowed = {} =>
                  /\ evlog[i].code = HTTP_NOT_FOUND
                  /\ EntryStatuses(evlog[i]) \subseteq {HTTP_NOT_FOUND}

\* C9 -- Allow header on 405: every complete 405 response carries an Allow
\* header.
C9_AllowOn405 ==
    \A i \in 1..Len(evlog) :
        evlog[i].code = HTTP_METHOD_NOT_ALLOWED /\ evlog[i].emitted =>
            HeaderName("Allow") \in EntryTokens(evlog[i])

\* C10 -- I/O errors produce no response: a failed read, a zero-length
\* read and a failed write close the connection, and the event appends
\* nothing to the write buffer.
C10_IoErrorsNoResponse ==
    (last.ev = "read" /\ last.ret <= 0) \/ (last.ev = "write" /\ last.ret = -1)
        => ~conn.alive /\ Sock \notin connections /\ last.added = 0

\* A write failed on a connection that had output buffered.
C10_Witness ==
    /\ last.ev = "write" /\ last.ret = -1
    /\ appended # << >> /\ ~conn.alive

\* C11 -- Internal failure during request processing: when http_msg_parse
\* returns -1 in a read event (and the process lives on), the event has
\* appended a complete 500 Internal Server Error response as its last
\* output, the connection is shutting down with its read interest removed,
\* and the read loop ended there: the read buffer and the parser are as
\* the failing call left them and no further request was processed.
C11_ParseFailure500 ==
    last.ev = "read" /\ last.pf.seen /\ ~crashed =>
        /\ conn.alive /\ conn.shutting_down /\ conn.ev_read = "idle"
        /\ Len(appended) >= 9
        /\ appended[Len(appended) - 8] =
              StatusLine(conn.http_version, HTTP_INTERNAL_SERVER_ERROR,
                         "Internal Server Error")
        /\ appended[Len(appended)].k = "body"
        /\ appended[Len(appended)].b = HTTP_INTERNAL_SERVER_ERROR
        /\ conn.rbuf = last.pf.rbuf
        /\ Len(evlog) = last.pf.n

\* The parse failed after a request of the same read had been processed,
\* with bytes still buffered.
C11_Witness ==
    /\ last.ev = "read" /\ last.pf.seen /\ last.pf.n = 1
    /\ conn.alive /\ conn.shutting_down /\ conn.rbuf # << >>
    /\ Len(Responses) = 2

\* The default error response for a status code, as the tokens that follow
\* its status line; the body "<h1>CODE REASON</h1>\n" has a three-digit
\* code, so its length is that of the reason and fourteen more bytes.
DefaultErrorHeadersAndBody(code, reason) ==
    << Tok("name", "Content-Type", 0, 0), Tok("value", "text/html", 9, 0),
       Tok("crlf", "\r\n", 2, 0),
       Tok("name", "Content-Length", 0, 0),
       Tok("value", "%zu", Len("<h1>") + 3 + Len(" ") + Len(reason)
                            + Len("</h1>") + 1, 0),
       Tok("crlf", "\r\n", 2, 0),
       Tok("crlf", "\r\n", 2, 0),
       Tok("body", reason, Len("<h1>") + 3 + Len(" ") + Len(reason)
                           + Len("</h1>") + 1, code) >>

\* C12 -- Default error response is well formed: every error response
\* that http_connection_http_error emitted (it returned 0) is, in the
\* order of appending, a status line with the code and its reason phrase,
\* Content-Type: text/html, Content-Length with the byte length of the
\* body, an empty line and the body '<h1>CODE REASON</h1>' and a newline.
C12_ErrorResponseWellFormed ==
    \A i \in 1..Len(last.errs) :
        last.errs[i].ret = 0 =>
            /\ last.errs[i].to = last.errs[i].from + 8
            /\ last.errs[i].to <= Len(appended)
            /\ appended[last.errs[i].from].k = "status"
            /\ appended[last.errs[i].from].b = last.errs[i].code
            /\ appended[last.errs[i].from].t =
                  http_status_code_to_reason_phrase(last.errs[i].code)
            /\ appended[last.errs[i].from].t # "NULL"
            /\ SubSeq(appended, last.errs[i].from + 1, last.errs[i].to) =
                  DefaultErrorHeadersAndBody(
                      last.errs[i].code, appended[last.errs[i].from].t)

\* One read event answered a request with 404 and the next with 405.
C12_Witness ==
    /\ Len(last.errs) = 2
    /\ last.errs[1].ret = 0 /\ last.errs[1].code = HTTP_NOT_FOUND
    /\ last.errs[2].ret = 0 /\ last.errs[2].code = HTTP_METHOD_NOT_ALLOWED

\* C13 -- Connection: close on the wire: an error response the library
\* wrote for a request carries the header Connection: close when the
\* keep-alive policy shuts the connection down after it, and does not
\* carry it when the connection stays open.
C13_ConnectionCloseOnWire ==
    \A i \in 1..Len(evlog) :
        evlog[i].code # HTTP_OK /\ evlog[i].emitted /\ evlog[i].processed =>
            (evlog[i].sd_called <=>
                \E j \in evlog[i].from..(evlog[i].to - 1) :
                    /\ appended[j] = HeaderName("Connection")
                    /\ appended[j + 1].k = "value"
                    /\ appended[j + 1].t = "close")

\* Each successful write appended its data to the end of the write buffer
\* and asked the reactor for writable interest exactly when the buffer
\* was empty before the call.
WritesAppendAndArm ==
    \A i \in 1..Len(last.writes) :
        last.writes[i].ret = 0 =>
            /\ last.writes[i].post =
                  last.writes[i].pre \o << last.writes[i].tok >>
            /\ last.writes[i].calls = 2 <=> last.writes[i].pre = << >>
            /\ last.writes[i].calls = 1 <=> last.writes[i].pre # << >>
            /\ last.writes[i].pre = << >> => last.writes[i].ev_post = "armed"
            /\ last.writes[i].pre # << >> =>
                  last.writes[i].ev_post = last.writes[i].ev_pre

\* A callback that appends to the write buffer sends nothing.
WritesLeaveSocket == Len(appended') > Len(appended) => sent' = sent

\* C14 -- Buffered non-blocking write: http_connection_write and
\* http_connection_printf append the data to the end of the write buffer
\* without touching the socket, and arm the write event exactly when the
\* buffer was empty before the call; on success the new content of the
\* buffer is the old content followed by the data.
C14_BufferedWrite == [](WritesAppendAndArm) /\ [][WritesLeaveSocket]_vars

\* A response was appended behind output the socket had not yet taken
\* all of: its first write found the buffer non-empty.
C14_Witness ==
    /\ Len(last.writes) > 1
    /\ last.writes[1].ret = 0 /\ last.writes[1].pre # << >>
    /\ last.writes[1].ev_pre = "armed"
    /\ sent # << >>

\* What http_connection_setup leaves behind, for the step that accepts.
SetupPostcondition ==
    accepts' # accepts =>
        /\ last'.ret = 0 =>
              /\ hist'.clean
              /\ conn'.alive /\ conn'.sock = Sock
              /\ conn'.ev_read = "armed" /\ conn'.ev_write = "idle"
              /\ conn'.rbuf = << >> /\ conn'.wbuf = << >>
              /\ conn'.parser = NullParser
              /\ conn'.http_version = HTTP_1_1
              /\ conn'.last_activity = now'
        /\ ~hist'.clean => last'.ret = -1
        /\ last'.ret = -1 => conn' = NullConn /\ Sock \notin connections'

\* C15 -- Setup postcondition: when setup returns a connection, it has a
\* read and a write registration with the reactor (read interest armed),
\* empty buffers, a parser in state Start, version HTTP/1.1 and
\* last_activity equal to the current time; when any step of setup fails,
\* setup returns no connection and the partly built connection is
\* released and its socket closed.
C15_SetupPostcondition == [][SetupPostcondition]_vars

\* The calls that failed in the callback of this step: the inputs the
\* step used up, less the one a shutdown request or an acting timeout
\* check costs by itself.
FailedCalls ==
    spent' - spent - (CASE last'.ev = "timer" -> last'.ret
                        [] last'.ev = "shutdown" -> 1
                        [] OTHER -> 0)

\* The step's write event left nothing in the write buffer: the socket
\* took all of it, or it was empty already.
WriteEventDrains ==
    last'.ev = "write" /\ last'.ret >= 0 /\ sent' = sent \o conn.wbuf

\* A step that closes the connection has one of the four causes.
ClosedForACause ==
    conn.alive /\ ~conn'.alive /\ ~crashed' =>
        \/ last'.ev = "read" /\ last'.ret = 0
        \/ last'.ev = "read" /\ last'.ret = -1
        \/ last'.ev = "write" /\ last'.ret = -1
        \/ FailedCalls > 0
        \/ conn.shutting_down /\ WriteEventDrains

\* Draining the buffer of a connection that is not shutting down leaves
\* the connection open, and so does a partial write.
DrainLeavesOpen ==
    /\ conn.alive /\ ~conn.shutting_down /\ sent' # sent /\ WriteEventDrains =>
          conn'.alive /\ conn'.wbuf = << >> /\ ~conn'.shutting_down
    /\ conn.alive /\ last'.ev = "write" /\ last'.ret > 0 /\ sent' # sent
          /\ ~WriteEventDrains => conn'.alive

\* C16 -- Connection lifecycle: a connection is closed only because the
\* peer closed (zero-length read), because of a fatal error (a failed
\* read or write, or a failed call of the buffer, parser, reactor or
\* socket interface), or because the write buffer of a shutting-down
\* connection (shut down by the policy, a parser error or the inactivity
\* timeout) finished draining; a write event that empties the write
\* buffer of a connection that is not shutting down leaves it open.
C16_Lifecycle == [][ClosedForACause /\ DrainLeavesOpen]_vars

\* A timed-out connection was closed by the write event that drained
\* its 408 response.
C16_Witness ==
    /\ ~conn.alive /\ ~crashed /\ ~uaf
    /\ last.ev = "write" /\ last.ret > 0
    /\ timeouts = 1 /\ sent = appended /\ Len(Responses) = 1
    /\ Responses[1].b = HTTP_REQUEST_TIMEOUT

\* C17 -- Configuration defaults: once http_cfg_init has succeeded, the
\* configuration has connection_backlog 5, max_request_uri_length 2048,
\* max_header_name_length 128, max_header_value_length 4096,
\* max_content_length 16,000,000, max_chunk_length 1,000,000,
\* bufferization auto and connection_timeout 10,000 ms, whatever the
\* structure held before and whatever decoders were added since.
C17_CfgDefaults ==
    server_cfg.phase = "ready" =>
        /\ server_cfg.cfg.connection_backlog = 5
        /\ server_cfg.cfg.max_request_uri_length = 2048
        /\ server_cfg.cfg.max_header_name_length = 128
        /\ server_cfg.cfg.max_header_value_length = 4096
        /\ server_cfg.cfg.max_content_length = 16000000
        /\ server_cfg.cfg.max_chunk_length = 1000000
        /\ server_cfg.cfg.bufferization = "HTTP_BUFFERIZE_AUTO"
        /\ server_cfg.cfg.connection_timeout = 10000

\* The configuration was initialised and a decoder was added to it.
C17_Witness ==
    /\ server_cfg.phase = "ready"
    /\ server_cfg.cfg.nb_content_decoders = 2
    /\ server_cfg.cfg.max_content_length = 16000000

\* C18 -- Built-in content decoder: once http_cfg_init has succeeded,
\* looking up 'application/x-www-form-urlencoded' returns the built-in
\* decoder with its decode and delete functions, and it still does after
\* any number of further decoders have been added.
C18_BuiltinDecoder ==
    server_cfg.phase = "ready" =>
        http_cfg_content_decoder_get(
            server_cfg.cfg, "application/x-www-form-urlencoded") =
        Decoder("application/x-www-form-urlencoded",
                "http_content_form_data_decode",
                "http_content_form_data_delete")

\* Decoders for two other content types were added behind the built-in
\* one, and each of the three is found.
C18_Witness ==
    /\ server_cfg.phase = "ready"
    /\ server_cfg.cfg.nb_content_decoders >= 3
    /\ http_cfg_content_decoder_get(server_cfg.cfg, "application/json")
           # NoDecoder
    /\ http_cfg_content_decoder_get(server_cfg.cfg, "text/plain") # NoDecoder
    /\ http_cfg_content_decoder_get(
           server_cfg.cfg, "application/x-www-form-urlencoded") # NoDecoder

\* The stream of the parser received in one piece.
OnePiece == Receive(Feeding(feed.cfg, feed.input), Len(feed.stream))

\* C19 -- Split invariance of the parser: however the stream of a message
\* is cut into pieces, the messages the parser has reported done are the
\* first of those it reports for the stream in one piece; once the whole
\* stream is received (or the parser fails) the done messages, the
\* status, the parser and the buffer are those of the one-piece run, and
\* a valid stream ends with every message done and nothing left over.
C19_SplitInvariance ==
    /\ IsPrefix(feed.done, OnePiece.done)
    /\ feed.status # 0 =>
          feed.done = OnePiece.done /\ feed.status = OnePiece.status
    /\ feed.fed = Len(feed.stream) =>
          /\ feed.done = OnePiece.done
          /\ feed.status = OnePiece.status
          /\ feed.parser = OnePiece.parser
          /\ feed.buf = OnePiece.buf
    /\ feed.fed = Len(feed.stream) /\ OnePiece.status = 0 =>
          /\ Len(feed.done) = (IF feed.input.pipelined THEN 2 ELSE 1)
          /\ feed.parser = NewParser /\ feed.buf = << >>

\* A cut fell inside the data of a chunk: part of the body is taken and
\* the rest of the chunk has not arrived.
C19_Witness ==
    /\ feed.parser.state = "BODY" /\ feed.parser.msg.is_body_chunked
    /\ feed.parser.chunk_left > 0 /\ feed.parser.msg.body # << >>
    /\ feed.buf = << >> /\ feed.fed < Len(feed.stream)
    /\ feed.input.pipelined

\* The status documented for a length over its limit.
DocumentedStatus(kind) ==
    CASE kind = "uri" -> 414
      [] kind = "name" -> 431
      [] kind = "value" -> 431
      [] kind = "content" -> 413
      [] kind = "chunk" -> 413

\* The length of the first done message that kind names.
LengthIn(msg, kind) ==
    CASE kind = "uri" -> Len(msg.uri)
      [] kind = "name" -> Len(msg.headers[1].name)
      [] kind = "value" -> Len(msg.headers[1].value)
      [] kind = "content" -> msg.content_length
      [] kind = "chunk" -> Len(msg.body)

\* C20 -- Limit boundaries: for each of the five limits, a request whose
\* length is exactly the limit is parsed to Done with that length, and a
\* request one octet over the limit moves the parser to Error with the
\* documented status (414, 431, 431, 413, 413) before any message is done.
C20_LimitBoundaries ==
    feed.input.kind \in LimitKinds =>
    IF feed.input.n = LimitOf(feed.cfg, feed.input.kind)
    THEN /\ feed.status = 0 /\ feed.parser.state # "ERROR"
         /\ feed.fed = Len(feed.stream) =>
               /\ feed.done # << >>
               /\ LengthIn(feed.done[1], feed.input.kind) = feed.input.n
               /\ Len(feed.done[1].body) = feed.input.size
    ELSE /\ feed.done = << >>
         /\ feed.status \in {0, DocumentedStatus(feed.input.kind)}
         /\ feed.status # 0 <=> feed.parser.state = "ERROR"
         /\ feed.fed = Len(feed.stream) =>
               feed.status = DocumentedStatus(feed.input.kind)

\* A chunk one octet over the limit was refused after the header section
\* had been accepted.
C20_Witness ==
    /\ feed.input.kind = "chunk"
    /\ feed.input.n = LimitOf(feed.cfg, "chunk") + 1
    /\ feed.status = 413 /\ feed.parser.state = "ERROR"
    /\ Len(feed.parser.msg.headers) = 2

RECURSIVE Sum(_)
Sum(seq) == IF seq = << >> THEN 0 ELSE Head(seq) + Sum(Tail(seq))

\* The messages of the parser: those reported done and the one in hand.
ParserMsgs == { feed.done[i] : i \in 1..Len(feed.done) } \cup {feed.parser.msg}

PathMatches ==
    { r \in { route_base.base.routes[i] :
                i \in 1..Len(route_base.base.routes) } :
        ComponentsMatch(r.components, SplitPath(route_base.found.path)) }

FullMatches == { r \in PathMatches : r.method = route_base.found.method }

Looked == route_base.found.result.match_result # "none"

\* The place of a route in the base.
PlaceOf(r) ==
    CHOOSE i \in 1..Len(route_base.base.routes) : route_base.base.routes[i] = r

\* C23 -- Route lookup outcomes: a lookup reports exactly one of
\* Matched, WrongMethod and WrongPath: Matched, with the handler of the
\* first route of the sorted base whose path matches and whose method is
\* the request's, when there is such a route; else WrongMethod when the
\* path of some route matches; else WrongPath.
C23_LookupOutcomes ==
    Looked =>
        /\ route_base.found.result.match_result
               \in {"Matched", "WrongMethod", "WrongPath"}
        /\ route_base.found.result.match_result = "Matched" <=>
               FullMatches # {}
        /\ route_base.found.result.match_result = "WrongMethod" <=>
               FullMatches = {} /\ PathMatches # {}
        /\ route_base.found.result.match_result = "WrongPath" <=>
               PathMatches = {}
        /\ FullMatches # {} =>
               \E r \in FullMatches :
                  /\ \A o \in FullMatches : PlaceOf(r) <= PlaceOf(o)
                  /\ route_base.found.result.msg_handler = r.msg_handler
        /\ FullMatches = {} => route_base.found.result.msg_handler = "NULL"

\* POST /a was matched behind a route for GET that matches the path too.
C23_Witness ==
    /\ Looked /\ route_base.found.result.msg_handler = "post_a"
    /\ \E r \in PathMatches :
          r.method = "GET" /\ PlaceOf(r) < Len(route_base.base.routes)
          /\ route_base.base.routes[PlaceOf(r) + 1].msg_handler = "post_a"

\* C24 -- Route specificity order: after a lookup the base is sorted,
\* the more specific template first (String before Named before Wildcard
\* at the first position where the types differ, ties broken by the order
\* of the template strings), and the handler chosen is that of the most
\* specific route with the request's method that matches the path,
\* whatever the order in which the routes were added.
C24_SpecificityOrder ==
    /\ route_base.base.sorted => InOrder(route_base.base.routes)
    /\ Looked =>
          /\ route_base.base.sorted
          /\ \A r \in FullMatches :
                (\A o \in FullMatches \ {r} : http_route_cmp(r, o) < 0)
                    => route_base.found.result.msg_handler = r.msg_handler
          /\ FullMatches # {} =>
                \E r \in FullMatches :
                    \A o \in FullMatches \ {r} : http_route_cmp(r, o) < 0

\* Three routes for GET match /a, a literal, a named and a wildcard one,
\* and the lookup chose the literal one.
C24_Witness ==
    /\ Looked /\ Cardinality(FullMatches) = 3
    /\ route_base.found.result.msg_handler = "get_a"
    /\ route_base.found.path = << "/", "a" >>

\* The octets the socket accepted in the step, and what the write buffer
\* holds behind them.
Accepted == Len(sent') - Len(sent)

Remainder == SubSeq(conn.wbuf, Accepted + 1, Len(conn.wbuf))

\* A write event whose write did not fail.
WriteEventStep ==
    /\ sent' = sent \o SubSeq(conn.wbuf, 1, Accepted)
    /\ conn'.alive => conn'.wbuf = Remainder
    /\ conn'.alive => (conn'.ev_write = "idle" <=> Remainder = << >>)
    /\ ~conn'.alive <=> (Remainder = << >> /\ conn.shutting_down)

\* C25 -- Write event step: a write event takes from the front of the
\* write buffer exactly what the socket accepted and leaves the rest in
\* order; the write event is disarmed if and only if the buffer is empty
\* after that; the connection is closed by the write event if and only if
\* the buffer is then empty and the connection shutting down, or the
\* write failed.
C25_WriteEventStep ==
    [][WriteEvent =>
         IF last'.ret = -1 THEN ~conn'.alive /\ sent' = sent
         ELSE WriteEventStep]_vars

\* The timeout check of the step sent the 408 error response (or tried
\* to) and nothing else.
TimeoutActed ==
    /\ Len(last'.errs) = 1
    /\ last'.errs[1].code = HTTP_REQUEST_TIMEOUT
    /\ \/ crashed' \/ uaf'
       \/ ~conn'.alive
       \/ conn'.shutting_down /\ conn'.ev_read = "idle"

\* The timeout check of the step left the connection as it was.
TimeoutFrame ==
    /\ conn' = conn /\ connections' = connections
    /\ appended' = appended /\ sent' = sent
    /\ last'.errs = << >> /\ last'.writes = << >> /\ last'.added = 0
    /\ uaf' = uaf /\ crashed' = crashed

\* C26 -- Timeout threshold and frame: the timeout check acts on a
\* connection (408 error response, then shutdown) if and only if now less
\* last_activity is strictly greater than connection_timeout; otherwise
\* it leaves the connection completely unchanged: nothing is appended,
\* shutting_down and the read interest are as they were.
C26_TimeoutThreshold ==
    [][TimeoutTimer =>
         IF now - conn.last_activity > connection_timeout
         THEN TimeoutActed
         ELSE TimeoutFrame]_vars

\* The check ran on a connection idle for exactly the timeout and left
\* it alone.
C26_Witness ==
    /\ last.ev = "timer" /\ last.ret = 0
    /\ conn.alive /\ now - conn.last_activity = connection_timeout
    /\ ~conn.shutting_down /\ conn.ev_read = "armed" /\ appended = << >>

\* A read event of the step read one octet or more.
SuccessfulRead == Len(net_in') < Len(net_in)

\* C27 -- Activity stamp: after each successful read that leaves the
\* connection alive, last_activity is the current time, whichever way the
\* read event went (parser incomplete, request dispatched, parser error,
\* internal failure).
C27_ActivityStamp ==
    [][SuccessfulRead /\ conn'.alive => conn'.last_activity = now]_vars

\* A connection that is closed is released: its record is the zeroed
\* memory and the connection table has no entry for its socket.
ClosedIsReleased ==
    ~conn.alive =>
        /\ conn = NullConn
        /\ conn.ev_read = "null" /\ conn.ev_write = "null"
        /\ conn.rbuf = << >> /\ conn.wbuf = << >>
        /\ Sock \notin connections

\* No callback runs for a closed connection: nothing is read for it,
\* written from it or appended to it.
ClosedIsLeftAlone ==
    ~conn.alive /\ accepts' = accepts =>
        UNCHANGED <<conn, connections, appended, sent, net_in, evlog, last>>

\* C28 -- Close releases everything: a closed connection has no entry in
\* the connection table, its reactor registrations, its buffers and its
\* parser are released and its socket is closed; no read, write or
\* timeout event is processed for it afterwards, and the callback that
\* closed it does not go on processing it.
C28_CloseReleases ==
    [](ClosedIsReleased /\ ~uaf) /\ [][ClosedIsLeftAlone]_vars

\* The requests of the latest read event that a route answers.
RoutedEntries == { i \in 1..Len(evlog) : Routed(evlog[i].req) }

\* The status lines appended while the request of entry e was processed.
EntryStatusLines(e) == { j \in e.from..e.to : IsStatus(appended[j]) }

\* C29 -- Dispatch and reset: every request the parser completes and a
\* route matches is handed to the handler exactly once (one entry, one
\* 200 status line at most, of the request's version); no request is
\* dispatched twice, the parser being reset before the read buffer is
\* parsed further, so that a live connection is never left with a parser
\* at Done; and when the reset fails the connection is closed and no
\* further request of the read buffer is processed.
C29_DispatchAndReset ==
    /\ \A i \in RoutedEntries :
          /\ evlog[i].code = HTTP_OK
          /\ Cardinality(EntryStatusLines(evlog[i])) <= 1
          /\ evlog[i].emitted => Cardinality(EntryStatusLines(evlog[i])) = 1
          /\ \A j \in EntryStatusLines(evlog[i]) :
                appended[j].b = HTTP_OK /\ appended[j].a = evlog[i].req.v
    /\ IsPrefix(hist.dispatched, hist.arrived)
    /\ conn.alive => conn.parser.state # "DONE"
    /\ last.rf.seen =>
          /\ ~conn.alive /\ Sock \notin connections
          /\ Len(evlog) = last.rf.n

\* The reset failed after a routed request was answered, with more to
\* parse in the read buffer.
C29_Witness ==
    /\ last.rf.seen /\ last.rf.rbuf # << >> /\ last.rf.n = 1
    /\ evlog[1].code = HTTP_OK /\ evlog[1].emitted
    /\ ~conn.alive /\ ~uaf

\* C30 -- No use after close: once http_connection_close has released a
\* connection, the callback that closed it does not touch it again: no
\* shutdown after an error response that closed it, no logging, parser
\* reset or parsing after a shutdown that closed it.
C30_NoUseAfterClose == ~uaf

\* C31 -- No request is dispatched on a shutting-down connection: once
\* processing a request has shut the connection down, no further request
\* of the read buffer is processed in the read event: none has an entry
\* that began on a connection already shutting down, and no response is
\* appended for one.
C31_NoDispatchWhenShuttingDown ==
    \A i \in 1..Len(evlog) :
        /\ ~evlog[i].pre_sd
        /\ \A j \in 1..(i - 1) :
              evlog[j].sd_called /\ evlog[j].sd_ret = 0 =>
                  evlog[i].to < evlog[i].from

\* C32 -- No stranded output: in every reachable state of a live
\* connection whose write buffer is not empty, the write event is armed
\* with the reactor.
C32_NoStrandedOutput ==
    conn.alive /\ conn.wbuf # << >> => conn.ev_write = "armed"

\* The socket took a part of the response of a connection that is
\* shutting down, and the rest waits.
C32_Witness ==
    /\ conn.alive /\ conn.wbuf # << >> /\ conn.ev_write = "armed"
    /\ last.ev = "write" /\ last.ret > 0 /\ sent # << >>
    /\ conn.shutting_down

\* C33 -- Failed write leaves the buffer unchanged: when a call of
\* http_connection_write or http_connection_printf returns -1, because
\* the data could not be appended or because the write event could not
\* be armed, the write buffer holds exactly what it held before the call.
\* (A call that hands a NULL write event to the reactor does not return.)
C33_FailedWriteUnchanged ==
    \A i \in 1..Len(last.writes) :
        last.writes[i].ret = -1 /\ last.writes[i].ev_pre # "null" =>
            /\ last.writes[i].post = last.writes[i].pre
            /\ last.writes[i].ev_post = last.writes[i].ev_pre

\* The write event could not be armed for the crlf behind a header value
\* and for nothing else: the buffer was empty before and is empty after.
C33_Witness ==
    \E i \in 1..Len(last.writes) :
        /\ last.writes[i].ret = -1 /\ last.writes[i].calls = 2
        /\ last.writes[i].pre = << >> /\ last.writes[i].post = << >>
        /\ last.writes[i].ev_pre = "idle"

C33_WitnessAppend ==
    \E i \in 1..Len(last.writes) :
        /\ last.writes[i].ret = -1 /\ last.writes[i].calls = 1
        /\ last.writes[i].pre # << >>
        /\ last.writes[i].post = last.writes[i].pre

\* C34 -- Shutting-down is monotonic: a step from a state in which the
\* connection is shutting down is not a read event, and unless it closes
\* the connection it leaves shutting_down true and the read event
\* unregistered; in every state a shutting-down connection has no read
\* interest.
ShuttingDownStep ==
    conn.alive /\ conn.shutting_down =>
        /\ ~ReadEvent
        /\ conn'.alive => conn'.shutting_down /\ conn'.ev_read = "idle"

C34_ShuttingDownMonotonic ==
    /\ [](conn.alive /\ conn.shutting_down => conn.ev_read = "idle")
    /\ [][ShuttingDownStep]_vars

\* A connection still shutting down after two later callbacks, a timeout
\* sweep and a write event, with a request of the peer left unread.
C34_Witness ==
    /\ conn.alive /\ conn.shutting_down /\ conn.ev_read = "idle"
    /\ last.ev = "write" /\ timeouts > 0 /\ net_in # << >>

\* What a write event leaves alone on a connection it does not close.
WriteEventFrame ==
    /\ appended' = appended
    /\ conn'.alive =>
          /\ conn'.last_activity = conn.last_activity
          /\ conn'.parser = conn.parser /\ conn'.rbuf = conn.rbuf
          /\ conn'.ev_read = conn.ev_read
          /\ conn'.shutting_down = conn.shutting_down
          /\ conn'.http_version = conn.http_version
          /\ conn'.sock = conn.sock

\* The timeout check of the step tried the 408 error response, and what it
\* appended stands behind the octets that were pending.
TimeoutBehindPending ==
    /\ Len(last'.errs) = 1 /\ last'.errs[1].code = HTTP_REQUEST_TIMEOUT
    /\ conn'.alive =>
          conn'.wbuf = conn.wbuf \o SubSeq(appended', Len(appended) + 1,
                                           Len(appended'))
    /\ last'.errs[1].ret = 0 /\ ~uaf' /\ ~crashed' =>
          /\ Len(appended') = Len(appended) + 9
          /\ appended'[Len(appended) + 1] =
                 StatusLine(conn.http_version, HTTP_REQUEST_TIMEOUT,
                            "Request Timeout")

\* C35 -- Write events do not count as activity: a write event changes
\* only the write buffer and the registration of the write event, or
\* closes the connection; last_activity, the parser and the read buffer
\* are as before, and last_activity moves only in a step that read from
\* the socket. So the timeout check acts on a connection whose response
\* is still draining once now less last_activity exceeds
\* connection_timeout, and its 408 response stands behind the pending
\* octets.
C35_WriteIsNotActivity ==
    /\ [][WriteEvent => WriteEventFrame]_vars
    /\ [][conn.alive /\ conn'.alive
            /\ conn'.last_activity # conn.last_activity => SuccessfulRead]_vars
    /\ [][TimeoutTimer /\ conn.wbuf # << >>
            /\ now - conn.last_activity > connection_timeout
          => TimeoutBehindPending]_vars

\* A part of a 200 response went out, the rest was still pending when the
\* connection timed out, and the 408 response stands behind it.
C35_Witness ==
    /\ conn.alive /\ last.ev = "timer" /\ last.ret = 1 /\ sent # << >>
    /\ Len(conn.wbuf) > 9
    /\ conn.wbuf[1].k # "status"
    /\ conn.wbuf[Len(conn.wbuf) - 8].k = "status"
    /\ conn.wbuf[Len(conn.wbuf) - 8].b = HTTP_REQUEST_TIMEOUT

\* C36 -- Request hook ordering: in every callback the configured request
\* hook has been called once for each request that was processed, in the
\* same order; the call for a request comes after the processing of the
\* request before it and before anything (route matching, handler, a 400,
\* 404 or 405 response) was done for the request itself. A message that
\* ended in a parser error has no call.
C36_RequestHookOrdering ==
    /\ Len(last.hooks) = Len(evlog)
    /\ \A i \in 1..Len(evlog) :
          /\ last.hooks[i].req = evlog[i].req
          /\ last.hooks[i].n = i - 1
          /\ last.hooks[i].at + 1 = evlog[i].from
    /\ \A k \in 1..Len(last.errs) :
          (\A i \in 1..Len(evlog) :
              last.errs[k].to < evlog[i].from \/ evlog[i].to < last.errs[k].from)
          => \A i \in 1..Len(last.hooks) : last.hooks[i].at < last.errs[k].from

\* One read event processed a request that was answered with 404 and then
\* met a malformed message: one hook call, for the request, and the 400
\* response of the parser error behind the 404.
C36_Witness ==
    /\ last.ev = "read" /\ Len(evlog) = 1 /\ Len(last.hooks) = 1
    /\ evlog[1].code = HTTP_NOT_FOUND /\ evlog[1].to >= evlog[1].from
    /\ last.hooks[1].req = evlog[1].req
    /\ \E k \in 1..Len(last.errs) :
          /\ last.errs[k].code = HTTP_BAD_REQUEST
          /\ last.errs[k].from > evlog[1].to
          /\ last.errs[k].to >= last.errs[k].from

\* The version of the request processed last on the connection, HTTP/1.1
\* when none has been processed.
LastProcessedVersion ==
    IF hist.dispatched = << >> THEN HTTP_1_1
    ELSE hist.dispatched[Len(hist.dispatched)].v

\* The versions on the status lines among the tokens from..to.
StatusVersions(from, to) ==
    { appended[k].a : k \in { j \in from..to : j <= Len(appended)
                                               /\ appended[j].k = "status" } }

\* The error response stands outside the processing of every request of
\* the callback.
OutsideProcessing(e) ==
    \A i \in 1..Len(evlog) : evlog[i].to < e.from

\* C37 -- Response version: every status line appended while a request was
\* processed carries the HTTP version of that request; a status line
\* appended outside the processing of a request (parser error, 500, 408)
\* carries the version of the request processed last on the connection,
\* HTTP/1.1 when there is none; a live connection holds that version.
C37_ResponseVersion ==
    /\ \A i \in 1..Len(evlog) :
          StatusVersions(evlog[i].from, evlog[i].to) \subseteq {evlog[i].req.v}
    /\ \A k \in 1..Len(last.errs) :
          OutsideProcessing(last.errs[k]) =>
              StatusVersions(last.errs[k].from, last.errs[k].to)
                  \subseteq {LastProcessedVersion}
    /\ conn.alive => conn.http_version = LastProcessedVersion

\* An HTTP/1.0 request was answered with an HTTP/1.0 status line, and the
\* 408 response of the later timeout carries HTTP/1.0 as well.
C37_Witness ==
    /\ last.ev = "timer" /\ Len(last.errs) = 1
    /\ hist.dispatched # << >> /\ LastProcessedVersion = HTTP_1_0
    /\ StatusVersions(last.errs[1].from, last.errs[1].to) = {HTTP_1_0}
    /\ StatusVersions(1, last.errs[1].from - 1) = {HTTP_1_0}

\* C38 -- Timeout arithmetic: the timeout check leaves alone a connection
\* whose last_activity is later than or equal to the now of the sweep.
C38_NoTimeoutFromLaterStamp ==
    [][TimeoutTimer /\ conn.last_activity >= now => TimeoutFrame]_vars

\* The part of C38 that holds: a connection stamped at the very now of
\* the sweep is left alone.
C38_EqualStampIsLeftAlone ==
    [][TimeoutTimer /\ conn.last_activity = now => TimeoutFrame]_vars

\* The content types looked up: the registered ones and two that differ
\* from a registered one in the case of a letter or in length.
LookupTypes == ContentTypes \cup {"Text/Plain", "text/plain; charset=utf-8"}

\* A call of http_cfg_content_decoder_add on the configuration: failing it
\* returns -1 and leaves the configuration as it is; succeeding it stores
\* the decoder behind the existing ones, which stay where they are.
DecoderAddCalls ==
    \A ct \in ContentTypes, decode \in DecodeFuncs :
        LET cfg == server_cfg.cfg
            n == cfg.nb_content_decoders
            failed == http_cfg_content_decoder_add(cfg, ct, decode, "delete", TRUE)
            added == http_cfg_content_decoder_add(cfg, ct, decode, "delete", FALSE)
        IN  /\ failed = CfgResult(cfg, -1)
            /\ added.ret = 0
            /\ added.cfg.nb_content_decoders = n + 1
            /\ Len(added.cfg.content_decoders) = n + 1
            /\ added.cfg.content_decoders[n + 1] = Decoder(ct, decode, "delete")
            /\ \A i \in 1..n :
                  added.cfg.content_decoders[i] = cfg.content_decoders[i]
            /\ added.cfg = [cfg EXCEPT
                              !.content_decoders = added.cfg.content_decoders,
                              !.nb_content_decoders = n + 1]

\* What lookups return after a step that added a decoder: a type that was
\* found before is found as before, the type of the new decoder is found
\* with the new decoder when it was not found before, every other type is
\* not found.
LookupsAfterAdd ==
    LET old == server_cfg.cfg
        new == server_cfg'.cfg
        n == old.nb_content_decoders
    IN  new # old =>
          /\ new.nb_content_decoders = n + 1
          /\ \A ct \in LookupTypes :
                http_cfg_content_decoder_get(new, ct) =
                    IF http_cfg_content_decoder_get(old, ct) # NoDecoder
                    THEN http_cfg_content_decoder_get(old, ct)
                    ELSE IF new.content_decoders[n + 1].content_type = ct
                         THEN new.content_decoders[n + 1]
                         ELSE NoDecoder

\* C39 -- Decoder registry semantics: adding a decoder appends it behind
\* the existing entries and leaves them and their order unchanged; a
\* lookup returns the decoder registered first for exactly the content
\* type asked for and nothing when there is none; a failed add leaves the
\* registry unchanged; after the configuration has been freed every
\* lookup returns nothing.
C39_DecoderRegistry ==
    /\ [](server_cfg.phase = "ready" => DecoderAddCalls)
    /\ [](server_cfg.phase = "ready" =>
             \A ct \in LookupTypes :
                 \/ http_cfg_content_decoder_get(server_cfg.cfg, ct).content_type = ct
                 \/ /\ http_cfg_content_decoder_get(server_cfg.cfg, ct) = NoDecoder
                    /\ \A i \in 1..server_cfg.cfg.nb_content_decoders :
                          server_cfg.cfg.content_decoders[i].content_type # ct)
    /\ [][CfgDecoderAdd => LookupsAfterAdd]_vars
    /\ [][CfgFree =>
            \A ct \in LookupTypes :
                http_cfg_content_decoder_get(server_cfg'.cfg, ct) = NoDecoder]_vars

\* Two decoders with different functions are registered for one content
\* type behind another decoder, and the lookup returns the earlier one.
C39_Witness ==
    /\ server_cfg.phase = "ready"
    /\ \E i, j \in 2..server_cfg.cfg.nb_content_decoders :
          /\ i < j
          /\ server_cfg.cfg.content_decoders[i].content_type =
                 server_cfg.cfg.content_decoders[j].content_type
          /\ server_cfg.cfg.content_decoders[i].decode #
                 server_cfg.cfg.content_decoders[j].decode
          /\ http_cfg_content_decoder_get(
                 server_cfg.cfg, server_cfg.cfg.content_decoders[j].content_type)
               = server_cfg.cfg.content_decoders[i]
          /\ http_cfg_content_decoder_get(server_cfg.cfg, "Text/Plain") = NoDecoder

====
